---- MODULE Spec2Model ----
(***************************************************************************)
(* Nightingale NDC calculator: the quantity calculator (quantityCalc.ts),  *)
(* the drug-name matcher and the calculation orchestrator                  *)
(* (orchestrator.ts) with the adapters it calls at their interface.        *)
(*                                                                         *)
(* Numbers.  Doses are JavaScript numbers; the model keeps them as exact   *)
(* rationals: a dose is a count of 1/DoseDen dispensing units and every    *)
(* intermediate quantity is a record [n, d] standing for n/d.  Math.ceil   *)
(* is taken on that exact value (IEEE-754 rounding of the intermediate     *)
(* products is not modelled).                                              *)
(*                                                                         *)
(* Optional fields.  An absent duration, maxPerDay or occurrencesPerDay is *)
(* 0: the code tests these fields for truthiness only, and 0 and undefined *)
(* are both falsy.  An absent doseRange is NoRange, null is Null.          *)
(***************************************************************************)
EXTENDS Integers, Sequences, FiniteSets, TLC

VARIABLES
    \* ---- quantity calculator harness (specification SpecQty) ----
    qpc,        \* "idle" | "input" | "done" | "varied"
    qsig,       \* the dosing record handed to calculateTotalQuantity
    qdays,      \* the daysSupply handed to calculateTotalQuantity
    qres,       \* its result
    qvar,       \* which argument the second call varies
    qsig2,      \* the second call's record
    qdays2,     \* the second call's daysSupply
    qres2,      \* the second call's result
    \* ---- one run of calculatePrescription (specification Spec) ----
    pc,                 \* "idle" | "start" | the adapter being awaited | "returned" | "thrown"
    input,              \* the PrescriptionInput
    openaiKey,          \* OPENAI_API_KEY is set
    calls,              \* adapter invocations so far, in order
    parsedSIG,          \* Null until parseSIG succeeded, then the enhanced record
    doseRangeInferred,  \* enhanceParsedSIG inferred a range from the text
    rxcuiResult,        \* Null until normalizeToRxCUI returned, then its outcome
    drugNameForSearch,  \* the name of the first catalog search
    ndcsResult,         \* Null until the catalog lookup is settled, then its outcome
    fdaResponse,        \* Null until fetchJSON answered a catalog search, then its answer
    candidateNDCs,      \* the candidate set (<<>> until computed)
    quantityNeeded,     \* calculateTotalQuantity's result (0 until computed)
    selectionResult,    \* Null until selectOptimalNDCs completed, then its outcome
    context,            \* the CalculationContext: a function on the populated keys
    outcome,            \* what the run returned or threw ([kind |-> "none"] before)
    \* ---- one call of a helper function (specification SpecFn) ----
    fpc,        \* "idle" | "input" | "done"
    fargs,      \* the function called and its arguments
    fres,       \* its result
    \* ---- one request to POST /api/calculate (specification SpecPost) ----
    hpc,        \* "idle" | "request" | "calculatePrescription" | "adviseOnError" | "responded"
    hbody,      \* the request body
    hadvice,    \* Null until adviseOnError completed, then its outcome
    hresponse,  \* Null until the handler answered, then [status, body]
    \* ---- one call of a retrying request function (specification SpecRetry) ----
    rpc,        \* "idle" | "input" | "attempt" | "sleep" | "adapter" | "done"
    rcall,      \* the function called, the adapter calling it, and maxRetries
    rattempt,   \* the loop's attempt counter
    rlog,       \* what each request so far was answered, in order
    rsleeps,    \* the backoff delays slept so far (ms), in order
    rres,       \* Null until the function completed, then its outcome
    rfinal,     \* Null until the calling adapter completed, then its outcome
    \* ---- one Cache instance and the adapter calls that share it
    \* ---- (specifications SpecCache and SpecShared) ----
    cacheName,  \* which instance: "rxnorm" | "fda" ("none" while idle)
    enabled,    \* CACHE_CONFIG.enabled
    maxSize,    \* Cache.maxSize
    cache,      \* Cache.cache: key -> [value, expiresAt]
    accessOrder,\* Cache.accessOrder
    now,        \* Date.now()
    usedOrder,  \* the keys ever written or returned, least recently used first
    lastSet,    \* key -> the value most recently set for it
    lastOp,     \* the operation just done: its arguments, its result, what it met
    runs,       \* the adapter calls in progress, each [pc, drugName, ...]
    stored      \* every <<key, value>> an adapter call passed to set

qvars == <<qpc, qsig, qdays, qres, qvar, qsig2, qdays2, qres2>>

pvars == <<pc, input, openaiKey, calls, parsedSIG, doseRangeInferred, rxcuiResult,
           drugNameForSearch, ndcsResult, fdaResponse, candidateNDCs, quantityNeeded,
           selectionResult, context, outcome>>

vars == <<qpc, qsig, qdays, qres, qvar, qsig2, qdays2, qres2,
          pc, input, openaiKey, calls, parsedSIG, doseRangeInferred, rxcuiResult,
          drugNameForSearch, ndcsResult, fdaResponse, candidateNDCs, quantityNeeded,
          selectionResult, context, outcome,
          fpc, fargs, fres,
          hpc, hbody, hadvice, hresponse,
          rpc, rcall, rattempt, rlog, rsleeps, rres, rfinal,
          cacheName, enabled, maxSize, cache, accessOrder, now,
          usedOrder, lastSet, lastOp, runs, stored>>

fvars == <<fpc, fargs, fres>>

hvars == <<hpc, hbody, hadvice, hresponse>>

rvars == <<rpc, rcall, rattempt, rlog, rsleeps, rres, rfinal>>

cvars == <<cacheName, enabled, maxSize, cache, accessOrder, now,
           usedOrder, lastSet, lastOp, runs, stored>>

(***************************************************************************)
(* Bounds of the model                                                     *)
(***************************************************************************)
DoseDen == 2            \* doses are multiples of 1/DoseDen unit
MaxDose == 3            \* largest dose, in 1/DoseDen units
MaxFreqValue == 5       \* largest frequency.value
MaxTimes == 2           \* longest frequency.times list
MaxPerDayBound == 2     \* largest frequency.maxPerDay
MaxDays == 3            \* largest daysSupply and duration
MaxOccurrences == 2     \* largest doseSchedule[i].occurrencesPerDay
MaxSchedule == 2        \* longest doseSchedule
MaxCatalog == 2         \* most packages in a catalog answer
MaxDispensed == 75      \* most units dispensed in a call of collectWarnings
MaxNeeded == 60         \* largest quantity needed in a call of collectWarnings
MaxSelected == 2        \* most packages in the selector's answer

(***************************************************************************)
(* Values                                                                  *)
(***************************************************************************)
Null == [null |-> TRUE]
NoRange == [absent |-> TRUE]

Periods == {"hour", "day", "week"}

\* FrequencyPattern (prescription.ts): the four variants
Frequencies ==
    {[type |-> "times_per_day", value |-> v] : v \in 1..MaxFreqValue}
    \cup {[type |-> "times_per_period", value |-> v, period |-> p] :
             v \in 1..MaxFreqValue, p \in Periods}
    \cup {[type |-> "specific_times", times |-> [i \in 1..k |-> "t"]] :
             k \in 1..MaxTimes}
    \cup {[type |-> "as_needed", maxPerDay |-> m] : m \in 0..MaxPerDayBound}

DoseRanges ==
    {NoRange} \cup {r \in [min : 1..MaxDose, max : 1..MaxDose] : r.min <= r.max}

ScheduleEntries ==
    [dose : 0..2, occurrencesPerDay : 0..MaxOccurrences]

RECURSIVE SeqsUpTo(_, _)
SeqsUpTo(S, k) ==
    IF k = 0 THEN {<<>>}
    ELSE LET shorter == SeqsUpTo(S, k - 1)
         IN  shorter \cup {Append(s, x) : s \in {t \in shorter : Len(t) = k - 1}, x \in S}

Schedules == SeqsUpTo(ScheduleEntries, MaxSchedule)

(***************************************************************************)
(* quantityCalc.ts                                                         *)
(***************************************************************************)
\* Math.ceil of the rational q.n / q.d (q.d > 0)
MathCeil(q) == 0 - ((0 - q.n) \div q.d)

\* convertToTimesPerDay: times per day as a rational
convertToTimesPerDay_inverted(value, period) ==
    CASE period = "hour" -> [n |-> value, d |-> 24]
      [] period = "day"  -> [n |-> value, d |-> 1]
      [] period = "week" -> [n |-> 7, d |-> value]

convertToTimesPerDay(value, period) ==
    CASE period = "hour" -> [n |-> 24, d |-> value]
      [] period = "day"  -> [n |-> value, d |-> 1]
      [] period = "week" -> [n |-> value, d |-> 7]

\* const effectiveDays = sig.duration && sig.duration < daysSupply ? sig.duration : daysSupply
effectiveDays_remaining(sig, daysSupply) ==
    IF sig.duration # 0 /\ sig.duration < daysSupply
    THEN daysSupply - sig.duration
    ELSE daysSupply

effectiveDays(sig, daysSupply) ==
    IF sig.duration # 0 /\ sig.duration < daysSupply
    THEN sig.duration
    ELSE daysSupply

\* entry.occurrencesPerDay && entry.occurrencesPerDay > 0 ? entry.occurrencesPerDay : 1
scheduleOccurrences(entry) ==
    IF entry.occurrencesPerDay # 0 /\ entry.occurrencesPerDay > 0
    THEN entry.occurrencesPerDay
    ELSE 1

\* sig.doseSchedule.reduce((sum, entry) => sum + entry.dose * occurrences, 0)
RECURSIVE dailyTotal(_)
dailyTotal(schedule) ==
    IF schedule = <<>> THEN 0
    ELSE dailyTotal(SubSeq(schedule, 1, Len(schedule) - 1))
         + schedule[Len(schedule)].dose * scheduleOccurrences(schedule[Len(schedule)])

calculateFromDoseSchedule_once(sig, days) ==
    IF Len(sig.doseSchedule) = 0
    THEN Null
    ELSE LET RECURSIVE plain(_)
             plain(s) == IF s = <<>> THEN 0 ELSE s[1].dose + plain(Tail(s))
         IN  [n |-> plain(sig.doseSchedule) * days, d |-> DoseDen]

calculateFromDoseSchedule(sig, days) ==
    IF Len(sig.doseSchedule) = 0
    THEN Null
    ELSE [n |-> dailyTotal(sig.doseSchedule) * days, d |-> DoseDen]

\* const doseToUse = sig.doseRange?.max ?? sig.dose
doseToUse_average(sig) ==
    IF sig.doseRange # NoRange
    THEN [n |-> sig.doseRange.min + sig.doseRange.max, d |-> 2 * DoseDen]
    ELSE [n |-> sig.dose, d |-> DoseDen]

doseToUse(sig) ==
    IF sig.doseRange # NoRange
    THEN [n |-> sig.doseRange.max, d |-> DoseDen]
    ELSE [n |-> sig.dose, d |-> DoseDen]

DEFAULT_PRN_MAX_PER_DAY == 4

\* the switch over sig.frequency.type: administrations per day as a rational
frequencyTimesPerDay(frequency) ==
    CASE frequency.type = "times_per_day" ->
            [n |-> frequency.value, d |-> 1]
      [] frequency.type = "times_per_period" ->
            convertToTimesPerDay(frequency.value, frequency.period)
      [] frequency.type = "specific_times" ->
            [n |-> Len(frequency.times), d |-> 1]
      [] frequency.type = "as_needed" ->
            [n |-> IF frequency.maxPerDay # 0 THEN frequency.maxPerDay
                   ELSE DEFAULT_PRN_MAX_PER_DAY,
             d |-> 1]

calculateTotalQuantity(sig, daysSupply) ==
    LET days == effectiveDays(sig, daysSupply)
        scheduledQuantity == calculateFromDoseSchedule(sig, days)
    IN  IF scheduledQuantity # Null
        THEN MathCeil(scheduledQuantity)
        ELSE LET dose == doseToUse(sig)
                 perDay == frequencyTimesPerDay(sig.frequency)
                 totalQuantity == [n |-> dose.n * perDay.n * days,
                                   d |-> dose.d * perDay.d]
             IN  MathCeil(totalQuantity)

(***************************************************************************)
(* Strings are sequences of one-character strings.  The model's alphabet   *)
(* has one whitespace character, the blank.                                *)
(***************************************************************************)
UpperChars == <<"A","B","C","D","E","F","G","H","I","J","K","L","M",
                "N","O","P","Q","R","S","T","U","V","W","X","Y","Z">>
LowerChars == <<"a","b","c","d","e","f","g","h","i","j","k","l","m",
                "n","o","p","q","r","s","t","u","v","w","x","y","z">>
DigitChars == <<"0","1","2","3","4","5","6","7","8","9">>

IsUpper(c) == \E i \in 1..26 : UpperChars[i] = c
IsLower(c) == \E i \in 1..26 : LowerChars[i] = c
IsDigit(c) == \E i \in 1..10 : DigitChars[i] = c
IsSpace(c) == c = " "
\* \w of a JavaScript regular expression
IsWordChar(c) == IsUpper(c) \/ IsLower(c) \/ IsDigit(c) \/ c = "_"
DigitValue(c) == (CHOOSE i \in 1..10 : DigitChars[i] = c) - 1

\* String.prototype.toLowerCase
toLowerCase(s) ==
    [i \in 1..Len(s) |->
        IF IsUpper(s[i]) THEN LowerChars[CHOOSE k \in 1..26 : UpperChars[k] = s[i]]
        ELSE s[i]]

\* String.prototype.trim
trim(s) ==
    LET inked == {i \in 1..Len(s) : ~IsSpace(s[i])}
    IN  IF inked = {} THEN <<>>
        ELSE SubSeq(s, CHOOSE i \in inked : \A o \in inked : i <= o,
                       CHOOSE i \in inked : \A o \in inked : i >= o)

\* String.prototype.includes
includes(s, part) ==
    \E i \in 1..(Len(s) + 1) :
        /\ i + Len(part) - 1 <= Len(s)
        /\ SubSeq(s, i, i + Len(part) - 1) = part

\* s has the literal lit at position i
HasAt(s, i, lit) ==
    /\ i >= 1
    /\ i + Len(lit) - 1 <= Len(s)
    /\ SubSeq(s, i, i + Len(lit) - 1) = lit

\* \b between positions i - 1 and i of s
WordBoundary(s, i) ==
    LET before == i - 1 >= 1 /\ i - 1 <= Len(s) /\ IsWordChar(s[i - 1])
        after == i >= 1 /\ i <= Len(s) /\ IsWordChar(s[i])
    IN  before # after

\* index after the longest run of digits (\d+) that starts at i
RECURSIVE DigitRunEnd(_, _)
DigitRunEnd(s, i) ==
    IF i <= Len(s) /\ IsDigit(s[i]) THEN DigitRunEnd(s, i + 1) ELSE i

\* index after the longest run of whitespace (\s*) that starts at i
RECURSIVE SpaceRunEnd(_, _)
SpaceRunEnd(s, i) ==
    IF i <= Len(s) /\ IsSpace(s[i]) THEN SpaceRunEnd(s, i + 1) ELSE i

\* index after (\.\d+)? matched at j
FractionEnd(s, j) ==
    IF j + 1 <= Len(s) /\ s[j] = "." /\ IsDigit(s[j + 1])
    THEN DigitRunEnd(s, j + 1)
    ELSE j

\* index after \d+(\.\d+)? matched at i, or 0 when s has no digit at i
NumberEnd(s, i) ==
    IF ~(i <= Len(s) /\ IsDigit(s[i])) THEN 0
    ELSE FractionEnd(s, DigitRunEnd(s, i))

(***************************************************************************)
(* orchestrator.ts: the drug-name matcher                                  *)
(***************************************************************************)
\* the alternatives of (mg|mcg|g|ml|units?|iu), in the order the regex tries them
StrengthUnits ==
    << <<"m","g">>, <<"m","c","g">>, <<"g">>, <<"m","l">>,
       <<"u","n","i","t","s">>, <<"u","n","i","t">>, <<"i","u">> >>

\* index after (mg|mcg|g|ml|units?|iu)\b matched at p, or 0: the first
\* alternative that fits is the one the regex takes
UnitEnd(s, p) ==
    LET fits(k) == /\ HasAt(s, p, StrengthUnits[k])
                   /\ WordBoundary(s, p + Len(StrengthUnits[k]))
    IN  IF \E k \in 1..Len(StrengthUnits) : fits(k)
        THEN p + Len(StrengthUnits[CHOOSE k \in 1..Len(StrengthUnits) :
                                       fits(k) /\ \A o \in 1..(k - 1) : ~fits(o)])
        ELSE 0

\* index after \s*(mg|mcg|g|ml|units?|iu)\b matched at j, the end of the
\* number (0 when there was no number)
UnitEndAfterNumber(s, j) ==
    IF j = 0 THEN 0 ELSE UnitEnd(s, SpaceRunEnd(s, j))

\* index after a match of /\b\d+(\.\d+)?\s*(mg|mcg|g|ml|units?|iu)\b/ that
\* starts at i, or 0 when there is none
StrengthTokenEnd(s, i) ==
    IF ~WordBoundary(s, i) THEN 0
    ELSE UnitEndAfterNumber(s, NumberEnd(s, i))

\* .replace(/\b\d+(\.\d+)?\s*(mg|mcg|g|ml|units?|iu)\b/g, ''): the scan goes
\* on after a match, and past one character where there is none
RECURSIVE stripStrengthTokens(_, _)
stripStrengthTokens(s, i) ==
    IF i > Len(s) THEN <<>>
    ELSE CHOOSE rest \in {IF e > 0 THEN stripStrengthTokens(s, e)
                          ELSE <<s[i]>> \o stripStrengthTokens(s, i + 1) :
                          e \in {StrengthTokenEnd(s, i)}} : TRUE

\* .replace(/[^a-z\s]/g, ' ')
blankNonLetters(s) ==
    [i \in 1..Len(s) |-> IF IsLower(s[i]) \/ IsSpace(s[i]) THEN s[i] ELSE " "]

\* .replace(/\s+/g, ' '): of a run of blanks the first one stays
collapseWhitespace(s) ==
    LET isKept(i) == ~(IsSpace(s[i]) /\ i > 1 /\ IsSpace(s[i - 1]))
    IN  [k \in 1..Cardinality({i \in 1..Len(s) : isKept(i)}) |->
            s[CHOOSE i \in 1..Len(s) :
                /\ isKept(i)
                /\ Cardinality({j \in 1..(i - 1) : isKept(j)}) = k - 1]]

\* each step of the chain works on the value of the one before
normalizeDrugNameForMatch(name) ==
    LET lowered == {toLowerCase(name)}
        stripped == {stripStrengthTokens(s, 1) : s \in lowered}
        blanked == {blankNonLetters(s) : s \in stripped}
        collapsed == {collapseWhitespace(s) : s \in blanked}
        trimmed == {trim(s) : s \in collapsed}
    IN  CHOOSE s \in trimmed : TRUE

\* MULTI_INGREDIENT_PATTERN = /\b(and|with)\b|\/|,/i  (RegExp.prototype.test)
MULTI_INGREDIENT_PATTERN(name) ==
    \E s \in {toLowerCase(name)} :
        \E i \in 1..Len(s) :
            \/ s[i] = "/"
            \/ s[i] = ","
            \/ \E w \in {<<"a","n","d">>, <<"w","i","t","h">>} :
                   /\ WordBoundary(s, i)
                   /\ HasAt(s, i, w)
                   /\ WordBoundary(s, i + Len(w))

(***************************************************************************)
(* errors.ts: the error kinds                                              *)
(***************************************************************************)
ValidationError ==
    [name |-> "ValidationError", code |-> "VALIDATION_ERROR", statusCode |-> 400,
     message |-> "Validation error for"]
InvalidSIGError ==
    [name |-> "InvalidSIGError", code |-> "INVALID_SIG", statusCode |-> 400,
     message |-> "Invalid SIG:"]
NDCNotFoundError ==
    [name |-> "NDCNotFoundError", code |-> "NDC_NOT_FOUND", statusCode |-> 404,
     message |-> "NDC not found or is invalid"]
DrugNormalizationError ==
    [name |-> "DrugNormalizationError", code |-> "DRUG_NORMALIZATION_FAILED",
     statusCode |-> 404, message |-> "Cannot normalize drug"]
AIServiceError ==
    [name |-> "AIServiceError", code |-> "AI_SERVICE_ERROR", statusCode |-> 500,
     message |-> "AI service error"]
ExternalAPIError ==
    [name |-> "ExternalAPIError", code |-> "EXTERNAL_API_ERROR", statusCode |-> 503,
     message |-> "External API error"]
\* the class fdaNdc.ts constructs; its declaration is not part of errors.ts
DrugNotFoundError == [name |-> "DrugNotFoundError"]

\* Result<T, E>: ok(data) and err(error)
ok(data) == [success |-> TRUE, data |-> data]
err(error) == [success |-> FALSE, error |-> error]

(***************************************************************************)
(* orchestrator.ts: dose-range inference                                   *)
(***************************************************************************)
\* parseFloat of the digits s[i..j-1] (with an optional fraction), in
\* 1/DoseDen units
RECURSIVE DigitsValue(_, _, _)
DigitsValue(s, i, j) ==
    IF j <= i THEN 0
    ELSE IF s[j - 1] = "." THEN DigitsValue(s, i, j - 1)
    ELSE 10 * DigitsValue(s, i, j - 1) + DigitValue(s[j - 1])

RECURSIVE FractionScale(_, _, _)
FractionScale(s, i, j) ==
    IF j <= i THEN 1
    ELSE IF s[j - 1] = "." THEN 1
    ELSE IF \E k \in i..(j - 1) : s[k] = "." THEN 10 * FractionScale(s, i, j - 1)
    ELSE 1

parseFloat(s, i, j) == (DigitsValue(s, i, j) * DoseDen) \div FractionScale(s, i, j)

\* a match of /(\d+(?:\.\d+)?)\s*-\s*(\d+(?:\.\d+)?)\s*UNITs?/i that starts
\* at i: its two numbers, or Null
DoseRangeMatchAt(s, unit, i) ==
    LET e1 == NumberEnd(s, i)
    IN  IF e1 = 0 THEN Null
        ELSE LET dash == SpaceRunEnd(s, e1)
             IN  IF ~HasAt(s, dash, <<"-">>) THEN Null
                 ELSE LET b2 == SpaceRunEnd(s, dash + 1)
                          e2 == NumberEnd(s, b2)
                      IN  IF e2 = 0 THEN Null
                          ELSE IF ~HasAt(toLowerCase(s), SpaceRunEnd(s, e2),
                                         toLowerCase(unit))
                               THEN Null
                               ELSE [min |-> parseFloat(s, i, e1),
                                     max |-> parseFloat(s, b2, e2)]

inferDoseRangeFromText(sigText, unit) ==
    LET starts == {i \in 1..Len(sigText) : DoseRangeMatchAt(sigText, unit, i) # Null}
    IN  IF starts = {} THEN Null
        ELSE LET first == CHOOSE i \in starts : \A o \in starts : i <= o
                 m == DoseRangeMatchAt(sigText, unit, first)
             IN  IF m.max < m.min THEN Null ELSE m

enhanceParsedSIG(sig, originalSIG) ==
    IF sig.doseRange = NoRange
    THEN LET inferredRange == inferDoseRangeFromText(originalSIG, sig.unit)
         IN  IF inferredRange # Null
             THEN [sig |-> [sig EXCEPT !.doseRange = inferredRange],
                   doseRangeInferred |-> TRUE]
             ELSE [sig |-> sig, doseRangeInferred |-> FALSE]
    ELSE [sig |-> sig, doseRangeInferred |-> FALSE]

(***************************************************************************)
(* orchestrator.ts: candidate filtering                                    *)
(***************************************************************************)
\* ndcsResult.data.filter((ndc) => ndc.status === 'active')
filterActive_all(ndcs) == ndcs

filterActive(ndcs) ==
    LET isActive(ndc) == ndc.status = "active"
    IN  SelectSeq(ndcs, isActive)

filterNDCsByDrugName(ndcs, normalizedDrugName) ==
    LET keep(pkg, wanted) ==
            \E genericName \in {IF pkg.genericName # <<>>
                                THEN normalizeDrugNameForMatch(pkg.genericName)
                                ELSE <<>>},
               brandName \in {IF pkg.brandName # <<>>
                              THEN normalizeDrugNameForMatch(pkg.brandName)
                              ELSE <<>>},
               isMultiIngredient \in {IF pkg.genericName # <<>>
                                      THEN MULTI_INGREDIENT_PATTERN(pkg.genericName)
                                      ELSE FALSE} :
                IF genericName # <<>> /\ includes(genericName, wanted)
                THEN ~isMultiIngredient
                ELSE IF brandName # <<>> /\ includes(brandName, wanted)
                THEN TRUE
                ELSE FALSE
        filtered == {IF wanted = <<>> THEN ndcs
                     ELSE SelectSeq(ndcs, LAMBDA pkg : keep(pkg, wanted)) :
                     wanted \in {normalizedDrugName}}
    IN  CHOOSE kept \in filtered : TRUE

\* const candidateNDCs = ingredientMatchedNDCs.length > 0 ? ingredientMatchedNDCs : activeNDCs
chooseCandidates_noFallback(ingredientMatchedNDCs, activeNDCs) == ingredientMatchedNDCs

chooseCandidates(ingredientMatchedNDCs, activeNDCs) ==
    IF Len(ingredientMatchedNDCs) > 0 THEN ingredientMatchedNDCs ELSE activeNDCs

(***************************************************************************)
(* orchestrator.ts: warnings and result                                    *)
(***************************************************************************)
\* confidence is kept in hundredths (0.7 is 70)
\* fillDifference > quantityNeeded * 0.1, on whole numbers of units
isSignificantOverfill_inclusive(fillDifference, needed) == 10 * fillDifference >= needed

isSignificantOverfill(fillDifference, needed) == 10 * fillDifference > needed

\* parsedSIG.confidence < 0.7
isLowConfidence_inclusive(confidence) == confidence <= 70

isLowConfidence(confidence) == confidence < 70

\* the warnings collectWarnings derives itself, in the order of its checks
ownWarnings(sig, fillDifference, needed, inferred) ==
    (IF isLowConfidence(sig.confidence)
     THEN <<[type |-> "low_confidence_parse", severity |-> "warning"]>> ELSE <<>>)
    \o (IF sig.frequency.type = "as_needed" /\ sig.frequency.maxPerDay = 0
        THEN <<[type |-> "ambiguous_sig", severity |-> "info"]>> ELSE <<>>)
    \o (IF sig.doseRange # NoRange
        THEN <<[type |-> "dose_range_assumption", severity |-> "info",
                inferredNote |-> inferred]>> ELSE <<>>)
    \o (IF isSignificantOverfill(fillDifference, needed)
        THEN <<[type |-> "overfill", severity |-> "warning"]>> ELSE <<>>)
    \o (IF fillDifference < 0
        THEN <<[type |-> "underfill", severity |-> "error"]>> ELSE <<>>)

\* warnings.push(...aiWarnings) comes last
collectWarnings_aiFirst(sig, aiWarnings, fillDifference, needed, inferred) ==
    aiWarnings \o ownWarnings(sig, fillDifference, needed, inferred)

collectWarnings(sig, aiWarnings, fillDifference, needed, inferred) ==
    ownWarnings(sig, fillDifference, needed, inferred) \o aiWarnings

\* selectedPackages.reduce((sum, pkg) => sum + pkg.totalUnits, 0)
RECURSIVE totalUnitsDispensed(_)
totalUnitsDispensed(selectedPackages) ==
    IF selectedPackages = <<>> THEN 0
    ELSE selectedPackages[1].totalUnits + totalUnitsDispensed(Tail(selectedPackages))

(***************************************************************************)
(* ndcSelector.ts                                                          *)
(***************************************************************************)
\* AISelectionOutputSchema.safeParse: every quantity is a positive integer
AISelectionOutputSchema(data) ==
    \A i \in 1..Len(data.selectedPackages) : data.selectedPackages[i].quantity > 0

\* input.availableNDCs.find((ndc) => ndc.ndc === selected.ndc)
findNDC_anywhere(availableNDCs, ndc) ==
    LET hits == {i \in 1..Len(availableNDCs) : availableNDCs[i].ndc = ndc}
    IN  IF hits = {}
        THEN [ndc |-> ndc, packageSize |-> 1, status |-> "inactive",
              genericName |-> <<>>, brandName |-> <<>>]
        ELSE availableNDCs[CHOOSE i \in hits : \A o \in hits : i <= o]

findNDC(availableNDCs, ndc) ==
    LET hits == {i \in 1..Len(availableNDCs) : availableNDCs[i].ndc = ndc}
    IN  IF hits = {} THEN Null
        ELSE availableNDCs[CHOOSE i \in hits : \A o \in hits : i <= o]

\* the mapping of one AI selection to a SelectedPackage
toSelectedPackage_single(ndcPackage, selected) ==
    [package |-> ndcPackage, quantity |-> selected.quantity,
     totalUnits |-> ndcPackage.packageSize]

toSelectedPackage(ndcPackage, selected) ==
    [package |-> ndcPackage, quantity |-> selected.quantity,
     totalUnits |-> ndcPackage.packageSize * selected.quantity]

\* selectOptimalNDCs, given the completion chatCompletion returns:
\* [kind |-> "ok", data], [kind |-> "err", error] or [kind |-> "throw", error]
selectOptimalNDCs(availableNDCs, needed, aiResult) ==
    IF Len(availableNDCs) = 0 THEN [kind |-> "err", error |-> AIServiceError]
    ELSE IF needed <= 0 THEN [kind |-> "err", error |-> AIServiceError]
    ELSE IF ~aiResult.success THEN [kind |-> "err", error |-> aiResult.error]
    ELSE IF ~AISelectionOutputSchema(aiResult.data)
         THEN [kind |-> "err", error |-> AIServiceError]
    ELSE LET picked == aiResult.data.selectedPackages
         IN  IF \E i \in 1..Len(picked) : findNDC(availableNDCs, picked[i].ndc) = Null
             THEN [kind |-> "throw", error |-> AIServiceError]
             ELSE LET selectedPackages ==
                          [i \in 1..Len(picked) |->
                              toSelectedPackage(findNDC(availableNDCs, picked[i].ndc),
                                                picked[i])]
                  IN  IF Len(selectedPackages) = 0
                      THEN [kind |-> "err", error |-> AIServiceError]
                      ELSE [kind |-> "ok",
                            data |-> [selectedPackages |-> selectedPackages,
                                      warnings |-> aiResult.data.warnings]]

(***************************************************************************)
(* The inputs and the external responses of one run                        *)
(***************************************************************************)
UnitTablet == <<"t", "a", "b", "l", "e", "t">>

\* PrescriptionInput.drugName: "Metformin 500mg", "Janumet", "metformin" (the
\* name RxNorm answers) and the empty name
DrugNames == {<<"M", "e", "t", "f", "o", "r", "m", "i", "n", " ", "5", "0", "0", "m", "g">>,
              <<"J", "a", "n", "u", "m", "e", "t">>,
              <<"m", "e", "t", "f", "o", "r", "m", "i", "n">>,
              <<>>}

\* PrescriptionInput.sig: "1 tablet", "1-2 tablets", a blank and the empty text
SigTexts == {<<"1", " ", "t", "a", "b", "l", "e", "t">>,
             <<"1", "-", "2", " ", "t", "a", "b", "l", "e", "t", "s">>,
             <<" ">>,
             <<>>}

\* the daysSupply of the "Variable Dose Range Handling" scenario
ScenarioDaysSupply == 5

\* PrescriptionInput.daysSupply: 0 is rejected by the schema
DaysSupplies == {0, ScenarioDaysSupply}

Inputs == [drugName : DrugNames, sig : SigTexts, daysSupply : DaysSupplies]

\* dosing records the parser may return (ParsedSIGSchema)
SigOnceDaily ==
    [dose |-> DoseDen, unit |-> UnitTablet,
     frequency |-> [type |-> "times_per_day", value |-> 1],
     duration |-> 0, doseRange |-> NoRange, doseSchedule |-> <<>>, confidence |-> 70]
SigRangePRN ==
    [dose |-> DoseDen, unit |-> UnitTablet,
     frequency |-> [type |-> "as_needed", maxPerDay |-> 0],
     duration |-> 0, doseRange |-> [min |-> DoseDen, max |-> 2 * DoseDen],
     doseSchedule |-> <<>>, confidence |-> 90]
SigPRN ==
    [dose |-> DoseDen, unit |-> UnitTablet,
     frequency |-> [type |-> "as_needed", maxPerDay |-> 0],
     duration |-> 0, doseRange |-> NoRange, doseSchedule |-> <<>>, confidence |-> 90]
SigPRNMax ==
    [dose |-> DoseDen, unit |-> UnitTablet,
     frequency |-> [type |-> "as_needed", maxPerDay |-> MaxPerDayBound],
     duration |-> 0, doseRange |-> NoRange, doseSchedule |-> <<>>, confidence |-> 69]
SigWeeklyShort ==
    [dose |-> 1, unit |-> UnitTablet,
     frequency |-> [type |-> "times_per_period", value |-> 1, period |-> "week"],
     duration |-> MaxDays - 1, doseRange |-> NoRange, doseSchedule |-> <<>>,
     confidence |-> 50]
SigZeroSchedule ==
    [dose |-> 1, unit |-> UnitTablet,
     frequency |-> [type |-> "times_per_day", value |-> 1],
     duration |-> 0, doseRange |-> NoRange,
     doseSchedule |-> <<[dose |-> 0, occurrencesPerDay |-> 1]>>,
     confidence |-> 90]

\* as needed without a maximum, with a dose schedule of one dose a day
SigSchedulePRN ==
    [dose |-> DoseDen, unit |-> UnitTablet,
     frequency |-> [type |-> "as_needed", maxPerDay |-> 0],
     duration |-> 0, doseRange |-> NoRange,
     doseSchedule |-> <<[dose |-> DoseDen, occurrencesPerDay |-> 1]>>,
     confidence |-> 90]

SigPool == {SigOnceDaily, SigRangePRN, SigPRN, SigPRNMax, SigWeeklyShort,
            SigZeroSchedule, SigSchedulePRN}

\* what the RxNorm lookup may answer: a concept named "metformin", or one
\* whose name is empty
RxNormConcepts ==
    {[rxcui |-> "6809", name |-> <<"m", "e", "t", "f", "o", "r", "m", "i", "n">>],
     [rxcui |-> "6809", name |-> <<>>]}

\* packages of the FDA directory (NDCPackage)
PkgMetformin ==
    [ndc |-> "00000000001", packageSize |-> 4, status |-> "active",
     genericName |-> <<"M", "e", "t", "f", "o", "r", "m", "i", "n">>, brandName |-> <<>>]
PkgJanumet ==
    [ndc |-> "00000000002", packageSize |-> 6, status |-> "active",
     genericName |-> <<"S", "i", "t", "a", "g", "l", "i", "p", "t", "i", "n", " ", "a", "n", "d", " ", "M", "e", "t", "f", "o", "r", "m", "i", "n">>,
     brandName |-> <<"J", "a", "n", "u", "m", "e", "t">>]
PkgEnded ==
    [ndc |-> "00000000003", packageSize |-> 4, status |-> "inactive",
     genericName |-> <<"M", "e", "t", "f", "o", "r", "m", "i", "n">>, brandName |-> <<>>]
PackagePool == {PkgMetformin, PkgJanumet, PkgEnded}

\* a successful catalog lookup returns at least one package (fdaNdc.ts:215)
Catalogs == SeqsUpTo(PackagePool, MaxCatalog) \ {<<>>}

\* the selector model's answer names packages of the directory, each with a
\* positive whole quantity; the discontinued package is never a candidate
AISelectedPackages ==
    {[ndc |-> PkgMetformin.ndc, quantity |-> 1],
     [ndc |-> PkgMetformin.ndc, quantity |-> 2],
     [ndc |-> PkgJanumet.ndc, quantity |-> 1],
     [ndc |-> PkgEnded.ndc, quantity |-> 1]}

\* the selector is asked for warnings of its own (prompt: "If significant
\* overfill (>10%), create a warning"); WarningSchema admits every type
AIWarnings ==
    {<<>>,
     <<[type |-> "overfill", severity |-> "info"],
       [type |-> "ambiguous_sig", severity |-> "warning"]>>}

\* an answer AISelectionOutputSchema rejects (quantity 0)
AIMalformedSelection ==
    [selectedPackages |-> <<[ndc |-> PkgMetformin.ndc, quantity |-> 0]>>,
     warnings |-> <<>>]

AISelections ==
    [selectedPackages : SeqsUpTo(AISelectedPackages, MaxSelected),
     warnings : AIWarnings]
    \cup {AIMalformedSelection}

\* what chatCompletion hands to selectOptimalNDCs
AIResults == {err(AIServiceError)} \cup {ok(d) : d \in AISelections}

(***************************************************************************)
(* The adapters at their interface: the outcomes a call can have           *)
(***************************************************************************)
\* parseSIG (sigParser.ts): "throw" is getClient() finding no API key
parseSIGOutcomes(sig, daysSupply, hasKey) ==
    IF trim(sig) = <<>> THEN {[kind |-> "err", error |-> AIServiceError]}
    ELSE IF daysSupply <= 0 \/ daysSupply > 365
         THEN {[kind |-> "err", error |-> AIServiceError]}
    ELSE IF ~hasKey THEN {[kind |-> "throw", error |-> AIServiceError]}
    ELSE {[kind |-> "err", error |-> AIServiceError]}
         \cup {[kind |-> "ok", data |-> r] : r \in SigPool}

\* normalizeToRxCUI (rxnorm.ts)
normalizeToRxCUIOutcomes(drugName) ==
    IF trim(drugName) = <<>> THEN {err(DrugNormalizationError)}
    ELSE {err(DrugNormalizationError)} \cup {ok(c) : c \in RxNormConcepts}

\* what fetchJSON answers a catalog search: it throws ExternalAPIError when
\* the transport failed after its retries, else the packages of the answer
\* that pass NDCPackageSchema (none for an answer without results)
FDAResponses ==
    {[kind |-> "throw", error |-> ExternalAPIError]}
    \cup {[kind |-> "ok", packages |-> c] : c \in Catalogs \cup {<<>>}}

\* searchNDCsByDrug (fdaNdc.ts), given fetchJSON's answer; a blank name is
\* answered without a request (response Null)
searchNDCsByDrug(drugName, response) ==
    IF trim(drugName) = <<>> THEN err(DrugNotFoundError)
    ELSE IF response.kind = "throw" THEN err(DrugNotFoundError)
    ELSE IF Len(response.packages) = 0 THEN err(DrugNotFoundError)
    ELSE ok(response.packages)

\* the answers fetchJSON can give a search for drugName
searchResponses(drugName) == IF trim(drugName) = <<>> THEN {Null} ELSE FDAResponses

(***************************************************************************)
(* orchestrator.ts: calculatePrescription                                  *)
(***************************************************************************)
Undefined == [undefined |-> TRUE]
NoOutcome == [kind |-> "none"]
EmptyContext == [k \in {} |-> Null]

PrescriptionInputSchema_noDays(in) ==
    /\ Len(in.drugName) >= 1 /\ Len(in.drugName) <= 200
    /\ Len(in.sig) >= 1 /\ Len(in.sig) <= 500

\* PrescriptionInputSchema.safeParse
PrescriptionInputSchema(in) ==
    /\ Len(in.drugName) >= 1 /\ Len(in.drugName) <= 200
    /\ Len(in.sig) >= 1 /\ Len(in.sig) <= 500
    /\ in.daysSupply > 0 /\ in.daysSupply <= 365

\* const failure = (error) => ({success: false, error, context: ...})
failure(error, ctx) ==
    [kind |-> "failure", error |-> error,
     context |-> IF DOMAIN ctx # {} THEN ctx ELSE Undefined]

Call(adapter, arg) == [adapter |-> adapter, arg |-> arg]

QtyIdle ==
    /\ qpc = "idle" /\ qsig = Null /\ qdays = 0 /\ qres = 0
    /\ qvar = "none" /\ qsig2 = Null /\ qdays2 = 0 /\ qres2 = 0

FnIdle == fpc = "idle" /\ fargs = Null /\ fres = Null

PostIdle == hpc = "idle" /\ hbody = Null /\ hadvice = Null /\ hresponse = Null

NoEntries == [k \in {} |-> Null]

CacheIdle ==
    /\ cacheName = "none" /\ enabled = FALSE /\ maxSize = 0
    /\ cache = NoEntries /\ accessOrder = <<>> /\ now = 0
    /\ usedOrder = <<>> /\ lastSet = NoEntries /\ lastOp = Null
    /\ runs = <<>> /\ stored = {}

RetryIdle ==
    /\ rpc = "idle" /\ rcall = Null /\ rattempt = 0 /\ rlog = <<>> /\ rsleeps = <<>>
    /\ rres = Null /\ rfinal = Null

PipelineIdle ==
    /\ pc = "idle" /\ input = Null /\ openaiKey = FALSE /\ calls = <<>>
    /\ parsedSIG = Null /\ doseRangeInferred = FALSE /\ rxcuiResult = Null
    /\ drugNameForSearch = <<>> /\ ndcsResult = Null /\ fdaResponse = Null
    /\ candidateNDCs = <<>>
    /\ quantityNeeded = 0 /\ selectionResult = Null
    /\ context = EmptyContext /\ outcome = NoOutcome

Init ==
    /\ QtyIdle
    /\ FnIdle
    /\ PostIdle
    /\ RetryIdle
    /\ CacheIdle
    /\ pc = "start"
    /\ input \in Inputs
    /\ openaiKey \in BOOLEAN
    /\ calls = <<>>
    /\ parsedSIG = Null /\ doseRangeInferred = FALSE /\ rxcuiResult = Null
    /\ drugNameForSearch = <<>> /\ ndcsResult = Null /\ fdaResponse = Null
    /\ candidateNDCs = <<>>
    /\ quantityNeeded = 0 /\ selectionResult = Null
    /\ context = EmptyContext /\ outcome = NoOutcome

\* lines 234-257: validate, then call parseSIG
Validate ==
    /\ pc = "start"
    /\ IF ~PrescriptionInputSchema(input)
       THEN /\ outcome' = [kind |-> "failure", error |-> ValidationError,
                           context |-> Undefined]
            /\ pc' = "returned"
            /\ UNCHANGED calls
       ELSE /\ calls' = Append(calls, Call("parseSIG", input.sig))
            /\ pc' = "parseSIG"
            /\ UNCHANGED outcome
    /\ UNCHANGED <<input, openaiKey, parsedSIG, doseRangeInferred, rxcuiResult,
                   drugNameForSearch, ndcsResult, fdaResponse, candidateNDCs, quantityNeeded,
                   selectionResult, context>>
    /\ UNCHANGED <<qvars, fvars, hvars, rvars, cvars>>

\* lines 257-270: parseSIG completes; enhance, then call normalizeToRxCUI
ParseSIGCompletes ==
    /\ pc = "parseSIG"
    /\ \E sigResult \in parseSIGOutcomes(input.sig, input.daysSupply, openaiKey) :
        CASE sigResult.kind = "throw" ->
                /\ outcome' = [kind |-> "thrown", error |-> sigResult.error]
                /\ pc' = "thrown"
                /\ UNCHANGED <<calls, parsedSIG, doseRangeInferred, context>>
          [] sigResult.kind = "err" ->
                /\ outcome' = [kind |-> "failure", error |-> sigResult.error,
                               context |-> Undefined]
                /\ pc' = "returned"
                /\ UNCHANGED <<calls, parsedSIG, doseRangeInferred, context>>
          [] sigResult.kind = "ok" ->
                \E enhanced \in {enhanceParsedSIG(sigResult.data, input.sig)} :
                    /\ parsedSIG' = enhanced.sig
                    /\ doseRangeInferred' = enhanced.doseRangeInferred
                    /\ context' =
                          IF enhanced.doseRangeInferred
                          THEN ("parsedSIG" :> enhanced.sig) @@ ("doseRangeInferred" :> TRUE)
                          ELSE ("parsedSIG" :> enhanced.sig)
                    /\ calls' = Append(calls, Call("normalizeToRxCUI", input.drugName))
                    /\ pc' = "normalizeToRxCUI"
                    /\ UNCHANGED outcome
    /\ UNCHANGED <<input, openaiKey, rxcuiResult, drugNameForSearch, ndcsResult, fdaResponse,
                   candidateNDCs, quantityNeeded, selectionResult>>
    /\ UNCHANGED <<qvars, fvars, hvars, rvars, cvars>>

\* lines 269-276: drugNameForSearch once the normalizer has answered
\* (rxcuiResult.data.name || validInput.drugName)
chooseDrugNameForSearch_noFallback(rxcuiResult_, drugName) ==
    IF rxcuiResult_.success THEN rxcuiResult_.data.name ELSE <<>>

chooseDrugNameForSearch(rxcuiResult_, drugName) ==
    IF rxcuiResult_.success /\ rxcuiResult_.data.name # <<>>
    THEN rxcuiResult_.data.name
    ELSE drugName

\* line 281: !ndcsResult.success && drugNameForSearch !== validInput.drugName
shouldRetrySearch_always(ndcsResult_, searched, drugName) == ~ndcsResult_.success

shouldRetrySearch(ndcsResult_, searched, drugName) ==
    ~ndcsResult_.success /\ searched # drugName

\* lines 270-279: normalizeToRxCUI completes; call searchNDCsByDrug
NormalizeCompletes ==
    /\ pc = "normalizeToRxCUI"
    /\ \E result \in normalizeToRxCUIOutcomes(input.drugName) :
        \E name \in {chooseDrugNameForSearch(result, input.drugName)} :
            /\ rxcuiResult' = result
            /\ context' = IF result.success
                          THEN context @@ ("rxcui" :> result.data.rxcui)
                          ELSE context
            /\ drugNameForSearch' = name
            /\ calls' = Append(calls, Call("searchNDCsByDrug", name))
    /\ pc' = "searchNDCsByDrug"
    /\ UNCHANGED <<input, openaiKey, parsedSIG, doseRangeInferred, ndcsResult, fdaResponse,
                   candidateNDCs, quantityNeeded, selectionResult, outcome>>
    /\ UNCHANGED <<qvars, fvars, hvars, rvars, cvars>>

\* the values a step leaves in the variables the search steps assign
Stopped(error, ctx, candidates, needed) ==
    [pc |-> "returned", outcome |-> failure(error, ctx),
     candidateNDCs |-> candidates, quantityNeeded |-> needed,
     context |-> ctx, calls |-> calls]

\* lines 302-322: the quantity is known; fail on a non-positive one, else
\* call selectOptimalNDCs
AfterQuantity_unchecked(candidates, needed) ==
    [pc |-> "selectOptimalNDCs", outcome |-> outcome,
     candidateNDCs |-> candidates, quantityNeeded |-> needed,
     context |-> context @@ ("quantityNeeded" :> needed),
     calls |-> Append(calls, Call("selectOptimalNDCs", candidates))]

AfterQuantity(candidates, needed) ==
    IF needed <= 0
    THEN Stopped(InvalidSIGError, context @@ ("quantityNeeded" :> needed),
                 candidates, needed)
    ELSE [pc |-> "selectOptimalNDCs", outcome |-> outcome,
          candidateNDCs |-> candidates, quantityNeeded |-> needed,
          context |-> context @@ ("quantityNeeded" :> needed),
          calls |-> Append(calls, Call("selectOptimalNDCs", candidates))]

\* lines 290-303: fail without an active package, else filter by name and
\* derive the quantity
AfterActive(activeNDCs) ==
    IF Len(activeNDCs) = 0
    THEN Stopped(NDCNotFoundError, context, candidateNDCs, quantityNeeded)
    ELSE AfterQuantity(
             chooseCandidates(
                 filterNDCsByDrugName(
                     activeNDCs,
                     normalizeDrugNameForMatch(
                         IF rxcuiResult.success THEN rxcuiResult.data.name
                         ELSE input.drugName)),
                 activeNDCs),
             calculateTotalQuantity(parsedSIG, input.daysSupply))

\* lines 284-322, once the catalog lookup is settled
AfterSearch(result) ==
    IF ~result.success
    THEN Stopped(result.error, context, candidateNDCs, quantityNeeded)
    ELSE AfterActive(filterActive(result.data))

\* lines 279-322: the first catalog search completes
SearchCompletes ==
    /\ pc = "searchNDCsByDrug"
    /\ \E response \in searchResponses(drugNameForSearch) :
      \E result \in {searchNDCsByDrug(drugNameForSearch, response)} :
        /\ fdaResponse' = response
        /\ ndcsResult' = result
        /\ IF shouldRetrySearch(result, drugNameForSearch, input.drugName)
           THEN /\ calls' = Append(calls, Call("searchNDCsByDrug", input.drugName))
                /\ pc' = "searchNDCsByDrugRetry"
                /\ UNCHANGED <<candidateNDCs, quantityNeeded, context, outcome>>
           ELSE \E next \in {AfterSearch(result)} :
                    /\ pc' = next.pc
                    /\ outcome' = next.outcome
                    /\ candidateNDCs' = next.candidateNDCs
                    /\ quantityNeeded' = next.quantityNeeded
                    /\ context' = next.context
                    /\ calls' = next.calls
    /\ UNCHANGED <<input, openaiKey, parsedSIG, doseRangeInferred, rxcuiResult,
                   drugNameForSearch, selectionResult>>
    /\ UNCHANGED <<qvars, fvars, hvars, rvars, cvars>>

\* lines 281-322: the search with the raw name completes
SearchRetryCompletes ==
    /\ pc = "searchNDCsByDrugRetry"
    /\ \E response \in searchResponses(input.drugName) :
      \E result \in {searchNDCsByDrug(input.drugName, response)} :
        \E next \in {AfterSearch(result)} :
            /\ fdaResponse' = response
            /\ ndcsResult' = result
            /\ pc' = next.pc
            /\ outcome' = next.outcome
            /\ candidateNDCs' = next.candidateNDCs
            /\ quantityNeeded' = next.quantityNeeded
            /\ context' = next.context
            /\ calls' = next.calls
    /\ UNCHANGED <<input, openaiKey, parsedSIG, doseRangeInferred, rxcuiResult,
                   drugNameForSearch, selectionResult>>
    /\ UNCHANGED <<qvars, fvars, hvars, rvars, cvars>>

\* const fillDifference = totalUnitsDispensed - quantityNeeded
fillDifference_reversed(dispensed, needed) == needed - dispensed

fillDifference(dispensed, needed) == dispensed - needed

\* lines 329-356: the CalculationResult
buildResult(selection) ==
    LET dispensed == totalUnitsDispensed(selection.selectedPackages)
        difference == fillDifference(dispensed, quantityNeeded)
        base == [parsedSIG |-> parsedSIG,
                 totalQuantityNeeded |-> quantityNeeded,
                 unit |-> parsedSIG.unit,
                 selectedPackages |-> selection.selectedPackages,
                 totalUnitsDispensed |-> dispensed,
                 fillDifference |-> difference,
                 warnings |-> collectWarnings(parsedSIG, selection.warnings, difference,
                                              quantityNeeded, doseRangeInferred),
                 availableNDCs |-> candidateNDCs]
    IN  IF rxcuiResult.success
        THEN base @@ ("rxcui" :> rxcuiResult.data.rxcui)
        ELSE base

\* lines 315-361: selectOptimalNDCs completes; build the result
SelectCompletes ==
    /\ pc = "selectOptimalNDCs"
    /\ \E aiResult \in AIResults :
        \E selectionOutcome \in {selectOptimalNDCs(candidateNDCs, quantityNeeded, aiResult)} :
            /\ selectionResult' = selectionOutcome
            /\ CASE selectionOutcome.kind = "throw" ->
                      /\ outcome' = [kind |-> "thrown", error |-> selectionOutcome.error]
                      /\ pc' = "thrown"
                 [] selectionOutcome.kind = "err" ->
                      /\ outcome' = failure(selectionOutcome.error, context)
                      /\ pc' = "returned"
                 [] selectionOutcome.kind = "ok" ->
                      /\ outcome' = [kind |-> "success",
                                     data |-> buildResult(selectionOutcome.data)]
                      /\ pc' = "returned"
    /\ UNCHANGED <<input, openaiKey, calls, parsedSIG, doseRangeInferred, rxcuiResult,
                   drugNameForSearch, ndcsResult, fdaResponse, candidateNDCs, quantityNeeded, context>>
    /\ UNCHANGED <<qvars, fvars, hvars, rvars, cvars>>

Next ==
    \/ Validate
    \/ ParseSIGCompletes
    \/ NormalizeCompletes
    \/ SearchCompletes
    \/ SearchRetryCompletes
    \/ SelectCompletes

Spec == Init /\ [][Next]_vars

(***************************************************************************)
(* routes/api/calculate/+server.ts: the POST handler, which validates the  *)
(* body, runs calculatePrescription and asks adviseOnError about a failure *)
(***************************************************************************)
\* a body request.json() rejects
MalformedBody == [malformed |-> TRUE]

Bodies == Inputs \cup {MalformedBody}

\* what the advice model may answer (AdviceSchema)
Advice == [explanation |-> "explanation", suggestions |-> <<"suggestion">>]

\* adviseOnError (errorAdvisor.ts): chatCompletion's getClient() throws
\* without an API key; a failed or schema-invalid completion is err(...)
adviseOnErrorOutcomes(hasKey) ==
    IF ~hasKey THEN {[kind |-> "throw", error |-> AIServiceError]}
    ELSE {[kind |-> "err", error |-> AIServiceError],
          [kind |-> "ok", data |-> Advice]}

\* a property of an error object, undefined when the object has none
errorField(error, key) == IF key \in DOMAIN error THEN error[key] ELSE Undefined

\* result.error.statusCode || 500
statusCodeOf(error) ==
    IF "statusCode" \in DOMAIN error /\ error.statusCode # 0
    THEN error.statusCode ELSE 500

\* lines 114-130: the answer to an unexpected error
internalErrorResponse ==
    [status |-> 500,
     body |-> [success |-> FALSE,
               error |-> [code |-> "INTERNAL_ERROR",
                          message |-> "An unexpected error occurred",
                          statusCode |-> 500]]]

\* lines 36-52: the answer to a body the schema rejects
validationErrorResponse ==
    [status |-> 400,
     body |-> [success |-> FALSE,
               error |-> [code |-> "VALIDATION_ERROR",
                          message |-> "first schema issue",
                          statusCode |-> 400]]]

\* lines 57-95: the answer to a failed calculation, given how adviseOnError
\* ended; a throw of the adviser is caught and logged
errorResponse_escalating(error, adviceOutcome) ==
    IF adviceOutcome.kind = "throw" THEN internalErrorResponse
    ELSE [status |-> statusCodeOf(error),
          body |-> [success |-> FALSE,
                    error |-> [code |-> errorField(error, "code"),
                               message |-> errorField(error, "message"),
                               statusCode |-> statusCodeOf(error),
                               advice |-> IF adviceOutcome.kind = "ok"
                                          THEN adviceOutcome.data ELSE Undefined]]]

errorResponse(error, adviceOutcome) ==
    [status |-> statusCodeOf(error),
     body |-> [success |-> FALSE,
               error |-> [code |-> errorField(error, "code"),
                          message |-> errorField(error, "message"),
                          statusCode |-> statusCodeOf(error),
                          advice |-> IF adviceOutcome.kind = "ok"
                                     THEN adviceOutcome.data ELSE Undefined]]]

\* lines 106-113
successResponse(data) == [status |-> 200, body |-> [success |-> TRUE, data |-> data]]

InitPost ==
    /\ QtyIdle
    /\ FnIdle
    /\ PipelineIdle
    /\ RetryIdle
    /\ CacheIdle
    /\ hpc = "request"
    /\ hbody \in Bodies
    /\ hadvice = Null /\ hresponse = Null

\* lines 25-55: read and validate the body, then call calculatePrescription
PostReceives ==
    /\ hpc = "request"
    /\ IF hbody = MalformedBody
       THEN /\ hresponse' = internalErrorResponse
            /\ hpc' = "responded"
            /\ UNCHANGED pvars
       ELSE IF ~PrescriptionInputSchema(hbody)
       THEN /\ hresponse' = validationErrorResponse
            /\ hpc' = "responded"
            /\ UNCHANGED pvars
       ELSE /\ hpc' = "calculatePrescription"
            /\ pc' = "start"
            /\ input' = hbody
            /\ openaiKey' \in BOOLEAN
            /\ UNCHANGED <<calls, parsedSIG, doseRangeInferred, rxcuiResult,
                           drugNameForSearch, ndcsResult, fdaResponse, candidateNDCs,
                           quantityNeeded, selectionResult, context, outcome,
                           hresponse>>
    /\ UNCHANGED <<hbody, hadvice>>
    /\ UNCHANGED <<qvars, fvars, rvars, cvars>>

\* lines 55-66: calculatePrescription returned a failure; call adviseOnError
PostCallsAdviser ==
    /\ hpc = "calculatePrescription"
    /\ pc = "returned" /\ outcome.kind = "failure"
    /\ hpc' = "adviseOnError"
    /\ UNCHANGED <<hbody, hadvice, hresponse>>
    /\ UNCHANGED <<pvars, qvars, fvars, rvars, cvars>>

\* lines 62-95: adviseOnError completes; answer with the original error
AdviseCompletes ==
    /\ hpc = "adviseOnError"
    /\ \E adviceOutcome \in adviseOnErrorOutcomes(openaiKey) :
        /\ hadvice' = adviceOutcome
        /\ hresponse' = errorResponse(outcome.error, adviceOutcome)
    /\ hpc' = "responded"
    /\ UNCHANGED hbody
    /\ UNCHANGED <<pvars, qvars, fvars, rvars, cvars>>

\* lines 97-113: calculatePrescription returned a result
PostSucceeds ==
    /\ hpc = "calculatePrescription"
    /\ pc = "returned" /\ outcome.kind = "success"
    /\ hresponse' = successResponse(outcome.data)
    /\ hpc' = "responded"
    /\ UNCHANGED <<hbody, hadvice>>
    /\ UNCHANGED <<pvars, qvars, fvars, rvars, cvars>>

\* lines 114-130: calculatePrescription threw
PostCatches ==
    /\ hpc = "calculatePrescription"
    /\ pc = "thrown"
    /\ hresponse' = internalErrorResponse
    /\ hpc' = "responded"
    /\ UNCHANGED <<hbody, hadvice>>
    /\ UNCHANGED <<pvars, qvars, fvars, rvars, cvars>>

NextPost ==
    \/ PostReceives
    \/ Validate
    \/ ParseSIGCompletes
    \/ NormalizeCompletes
    \/ SearchCompletes
    \/ SearchRetryCompletes
    \/ SelectCompletes
    \/ PostCallsAdviser
    \/ AdviseCompletes
    \/ PostSucceeds
    \/ PostCatches

SpecPost == InitPost /\ [][NextPost]_vars

(***************************************************************************)
(* http.ts fetchWithRetry and openai.ts chatCompletion: the retry loops,   *)
(* and the schema validation of the adapters that call chatCompletion      *)
(***************************************************************************)
\* parseInt(env.API_MAX_RETRIES || '3'), parseInt(process.env.OPENAI_MAX_RETRIES || '3')
DEFAULT_MAX_RETRIES == 3

\* an error object: status, code and name as the retry tests read them
\* (0 and "" where the object has none)
ErrorWith(status, code, name) == [status |-> status, code |-> code, name |-> name]

\* what fetch answers one attempt: a Response, or a rejection
FetchAnswers ==
    {[kind |-> "response", status |-> s] : s \in {200, 404, 429, 500, 503}}
    \cup {[kind |-> "rejection", error |-> e] :
            e \in {ErrorWith(0, "ECONNRESET", "Error"),
                   ErrorWith(0, "", "AbortError"),
                   ErrorWith(0, "", "TypeError")}}

\* what client.chat.completions.create answers one attempt: a completion
\* whose content is schema-valid JSON, JSON the adapter's schema rejects, not
\* JSON, or empty; or a rejection
ChatAnswers ==
    {[kind |-> "completion", content |-> c] :
        c \in {"valid", "schema_invalid", "not_json", "empty"}}
    \cup {[kind |-> "rejection", error |-> e] :
            e \in {ErrorWith(429, "", "Error"),
                   ErrorWith(0, "ETIMEDOUT", "Error"),
                   ErrorWith(400, "", "Error")}}

\* http.ts isRetryableError
isRetryableError_any5xx(error) ==
    \/ error.code \in {"ECONNRESET", "ETIMEDOUT", "ENOTFOUND"}
    \/ error.status = 429 \/ error.status >= 500
    \/ error.name \in {"AbortError", "FetchError"}

isRetryableError(error) ==
    \/ error.code \in {"ECONNRESET", "ETIMEDOUT", "ENOTFOUND"}
    \/ error.status \in {429, 503, 504}
    \/ error.name \in {"AbortError", "FetchError"}

\* openai.ts isRetryableError
openaiIsRetryableError(error) ==
    \/ error.status \in {429, 503}
    \/ error.code \in {"ECONNRESET", "ETIMEDOUT"}

\* Math.pow(2, attempt - 1) * 1000
backoffMs(attempt) == (2 ^ (attempt - 1)) * 1000

\* the catch block of both loops: retry unless the error is not retryable
\* or this was the last attempt
retriesAfter(retryable, attempt, maxRetries) == retryable /\ attempt # maxRetries

\* what fetchWithRetry makes of one attempt's answer: return the response,
\* throw ExternalAPIError at once, or enter the catch block with an error
fetchAttempt(answer) ==
    IF answer.kind = "rejection" THEN [kind |-> "caught", error |-> answer.error]
    ELSE IF answer.status >= 200 /\ answer.status < 300
    THEN [kind |-> "return", response |-> answer]
    ELSE IF answer.status >= 400 /\ answer.status < 500 /\ answer.status # 429
    THEN [kind |-> "throw", error |-> ExternalAPIError]
    ELSE [kind |-> "caught", error |-> ErrorWith(answer.status, "", "Error")]

\* what chatCompletion (JSON mode) makes of one attempt's answer
chatAttempt_retryEmpty(answer) ==
    IF answer.kind = "rejection" THEN [kind |-> "caught", error |-> answer.error]
    ELSE IF answer.content = "empty"
    THEN [kind |-> "caught", error |-> ErrorWith(503, "", "Error")]
    ELSE IF answer.content = "not_json"
    THEN [kind |-> "return", result |-> err(AIServiceError)]
    ELSE [kind |-> "return", result |-> ok(answer.content)]

chatAttempt(answer) ==
    IF answer.kind = "rejection" THEN [kind |-> "caught", error |-> answer.error]
    ELSE IF answer.content = "empty"
    THEN [kind |-> "return", result |-> err(AIServiceError)]
    ELSE IF answer.content = "not_json"
    THEN [kind |-> "return", result |-> err(AIServiceError)]
    ELSE [kind |-> "return", result |-> ok(answer.content)]

\* the adapter after chatCompletion: pass the failure on, else safeParse
adapterResult(aiResult) ==
    IF ~aiResult.success THEN err(aiResult.error)
    ELSE IF aiResult.data # "valid" THEN err(AIServiceError)
    ELSE ok(aiResult.data)

RetryCalls ==
    {[fn |-> "fetchWithRetry", caller |-> "fetchJSON", maxRetries |-> m] :
        m \in {0, 1, DEFAULT_MAX_RETRIES}}
    \cup {[fn |-> "chatCompletion", caller |-> a, maxRetries |-> m] :
            a \in {"parseSIG", "selectOptimalNDCs", "adviseOnError"},
            m \in {1, DEFAULT_MAX_RETRIES}}

\* the outcome of a loop that ran out: throw ExternalAPIError / err(AIServiceError)
exhausted(fn) ==
    IF fn = "fetchWithRetry" THEN [kind |-> "throw", error |-> ExternalAPIError]
    ELSE [kind |-> "return", result |-> err(AIServiceError)]

InitRetry ==
    /\ QtyIdle
    /\ FnIdle
    /\ PipelineIdle
    /\ PostIdle
    /\ CacheIdle
    /\ rpc = "input"
    /\ rcall \in RetryCalls
    /\ rattempt = 0 /\ rlog = <<>> /\ rsleeps = <<>>
    /\ rres = Null /\ rfinal = Null

\* for (let attempt = 1; attempt <= maxRetries; ...): the first test
LoopStarts ==
    /\ rpc = "input"
    /\ IF 1 <= rcall.maxRetries
       THEN /\ rattempt' = 1
            /\ rpc' = "attempt"
            /\ UNCHANGED rres
       ELSE /\ rres' = exhausted(rcall.fn)
            /\ rpc' = IF rcall.fn = "fetchWithRetry" THEN "done" ELSE "adapter"
            /\ UNCHANGED rattempt
    /\ UNCHANGED <<rcall, rlog, rsleeps, rfinal>>
    /\ UNCHANGED <<pvars, qvars, fvars, hvars, cvars>>

\* the loop body once the attempt is answered, seen as
\* [kind |-> "return" | "throw" | "caught", ...]
AttemptEnds(step, retryable) ==
    CASE step.kind = "caught" ->
            IF retriesAfter(retryable, rattempt, rcall.maxRetries)
            THEN /\ rsleeps' = Append(rsleeps, backoffMs(rattempt))
                 /\ rpc' = "sleep"
                 /\ UNCHANGED rres
            ELSE /\ rres' = exhausted(rcall.fn)
                 /\ rpc' = IF rcall.fn = "fetchWithRetry" THEN "done" ELSE "adapter"
                 /\ UNCHANGED rsleeps
      [] OTHER ->
            /\ rres' = step
            /\ rpc' = IF rcall.fn = "fetchWithRetry" THEN "done" ELSE "adapter"
            /\ UNCHANGED rsleeps

\* http.ts lines 93-131: one attempt of fetchWithRetry is answered
FetchAttemptCompletes ==
    /\ rpc = "attempt" /\ rcall.fn = "fetchWithRetry"
    /\ \E answer \in FetchAnswers :
        \E step \in {fetchAttempt(answer)} :
            /\ rlog' = Append(rlog, answer)
            /\ AttemptEnds(step, step.kind = "caught" /\ isRetryableError(step.error))
    /\ UNCHANGED <<rcall, rattempt, rfinal>>
    /\ UNCHANGED <<pvars, qvars, fvars, hvars, cvars>>

\* openai.ts lines 85-131: one attempt of chatCompletion is answered
ChatAttemptCompletes ==
    /\ rpc = "attempt" /\ rcall.fn = "chatCompletion"
    /\ \E answer \in ChatAnswers :
        \E step \in {chatAttempt(answer)} :
            /\ rlog' = Append(rlog, answer)
            /\ AttemptEnds(step, step.kind = "caught" /\ openaiIsRetryableError(step.error))
    /\ UNCHANGED <<rcall, rattempt, rfinal>>
    /\ UNCHANGED <<pvars, qvars, fvars, hvars, cvars>>

\* await sleep(backoffMs) is over: attempt++ and the loop test
BackoffElapses ==
    /\ rpc = "sleep"
    /\ rattempt' = rattempt + 1
    /\ IF rattempt + 1 <= rcall.maxRetries
       THEN /\ rpc' = "attempt"
            /\ UNCHANGED rres
       ELSE /\ rres' = exhausted(rcall.fn)
            /\ rpc' = IF rcall.fn = "fetchWithRetry" THEN "done" ELSE "adapter"
    /\ UNCHANGED <<rcall, rlog, rsleeps, rfinal>>
    /\ UNCHANGED <<pvars, qvars, fvars, hvars, cvars>>

\* parseSIG / selectOptimalNDCs / adviseOnError after chatCompletion returned
AdapterCompletes ==
    /\ rpc = "adapter"
    /\ rfinal' = adapterResult(rres.result)
    /\ rpc' = "done"
    /\ UNCHANGED <<rcall, rattempt, rlog, rsleeps, rres>>
    /\ UNCHANGED <<pvars, qvars, fvars, hvars, cvars>>

NextRetry ==
    \/ LoopStarts
    \/ FetchAttemptCompletes
    \/ ChatAttemptCompletes
    \/ BackoffElapses
    \/ AdapterCompletes

SpecRetry == InitRetry /\ [][NextRetry]_vars

\* the runtime resumes every pending await
SpecRetryLive == SpecRetry /\ WF_vars(NextRetry)

(***************************************************************************)
(* cache.ts: the Cache class, and the read-through use the adapters        *)
(* normalizeToRxCUI and searchNDCsByDrug make of their shared instance     *)
(***************************************************************************)
MaxCacheSize == 2       \* largest maxSize of an instance
MaxTTL == 1             \* largest time to live, in clock ticks
MaxNow == 2             \* the clock stops here
MaxRuns == 3            \* adapter calls that share the instance

\* Map.prototype.set and Map.prototype.delete
mapSet(m, key, entry) ==
    [k \in DOMAIN m \cup {key} |-> IF k = key THEN entry ELSE m[k]]

mapDelete(m, key) == [k \in DOMAIN m \ {key} |-> m[k]]

\* Array.prototype.indexOf, 1-based; 0 when absent
indexOf(seq, key) ==
    IF \E i \in DOMAIN seq : seq[i] = key
    THEN CHOOSE i \in DOMAIN seq : seq[i] = key /\ \A j \in 1..(i - 1) : seq[j] # key
    ELSE 0

\* accessOrder.splice(index, 1)
splice1(seq, index) == SubSeq(seq, 1, index - 1) \o SubSeq(seq, index + 1, Len(seq))

\* a Cache object `this` is [cache, accessOrder]
removeFromAccessOrder_kept(this, key) == this

removeFromAccessOrder(this, key) ==
    IF indexOf(this.accessOrder, key) > 0
    THEN [this EXCEPT !.accessOrder = splice1(this.accessOrder, indexOf(this.accessOrder, key))]
    ELSE this

updateAccessOrder(this, key) ==
    [cache |-> this.cache,
     accessOrder |-> Append(removeFromAccessOrder(this, key).accessOrder, key)]

evictLRU_newest(this) ==
    IF Len(this.accessOrder) = 0 THEN this
    ELSE [cache |-> mapDelete(this.cache, this.accessOrder[Len(this.accessOrder)]),
          accessOrder |-> SubSeq(this.accessOrder, 1, Len(this.accessOrder) - 1)]

evictLRU(this) ==
    IF Len(this.accessOrder) = 0 THEN this
    ELSE [cache |-> mapDelete(this.cache, this.accessOrder[1]),
          accessOrder |-> Tail(this.accessOrder)]

\* Date.now() > entry.expiresAt
isExpired_never(at, entry) == FALSE

isExpired(at, entry) == at > entry.expiresAt

\* Cache.get: the object afterwards and the value returned (found is
\* FALSE where the code returns undefined)
get(this, key, at) ==
    IF ~enabled THEN [this |-> this, found |-> FALSE, value |-> Undefined]
    ELSE IF key \notin DOMAIN this.cache
    THEN [this |-> this, found |-> FALSE, value |-> Undefined]
    ELSE IF isExpired(at, this.cache[key])
    THEN [this |-> removeFromAccessOrder(
                       [this EXCEPT !.cache = mapDelete(this.cache, key)], key),
          found |-> FALSE, value |-> Undefined]
    ELSE [this |-> updateAccessOrder(this, key),
          found |-> TRUE, value |-> this.cache[key].value]

\* Cache.set
set(this, key, value, ttl, at) ==
    IF ~enabled THEN this
    ELSE \* lines 79-85
         updateAccessOrder(
            [cache |-> mapSet((IF Cardinality(DOMAIN this.cache) >= maxSize
                                  /\ key \notin DOMAIN this.cache
                               THEN evictLRU(this) ELSE this).cache,
                              key, [value |-> value, expiresAt |-> at + ttl]),
             accessOrder |-> (IF Cardinality(DOMAIN this.cache) >= maxSize
                                 /\ key \notin DOMAIN this.cache
                              THEN evictLRU(this) ELSE this).accessOrder],
            key)

\* Cache.clear
clear(this) == [cache |-> NoEntries, accessOrder |-> <<>>]

\* the names the adapters are called with: "Janumet", "janumet " (the same
\* key), "metformin" and "ASA"
CachedDrugNames ==
    {<<"J", "a", "n", "u", "m", "e", "t">>,
     <<"j", "a", "n", "u", "m", "e", "t", " ">>,
     <<"m", "e", "t", "f", "o", "r", "m", "i", "n">>,
     <<"A", "S", "A">>}

\* `rxnorm:drug:${normalizedName}` and `fda:drug:${normalizedName}:${limit}`
cacheKey(name, drugName) ==
    IF name = "rxnorm" THEN <<"rxnorm:drug:">> \o toLowerCase(trim(drugName))
    ELSE <<"fda:drug:">> \o toLowerCase(trim(drugName)) \o <<":100">>

CacheKeys == {cacheKey(cacheName, n) : n \in CachedDrugNames}

\* what the adapters store: a concept, or the packages of an answer
CacheValues ==
    IF cacheName = "rxnorm" THEN RxNormConcepts
    ELSE {<<PkgMetformin>>, <<PkgJanumet>>}

This == [cache |-> cache, accessOrder |-> accessOrder]

\* rxnormCache or fdaCache, new and empty
NewCache(names) ==
    /\ cacheName \in names
    /\ enabled \in BOOLEAN
    /\ maxSize \in 1..MaxCacheSize
    /\ cache = NoEntries /\ accessOrder = <<>>
    /\ now = 0

InitCache ==
    /\ QtyIdle
    /\ FnIdle
    /\ PipelineIdle
    /\ PostIdle
    /\ RetryIdle
    /\ NewCache({"fda"})
    /\ usedOrder = <<>> /\ lastSet = NoEntries
    /\ lastOp = [op |-> "new"]
    /\ runs = <<>> /\ stored = {}

\* the record kept of an operation: its key and result (for set the ttl
\* passed), whether it met a full map without the key, and whether it met
\* an entry past its expiry
Operation(op, key, found, returned) ==
    [op |-> op, key |-> key,
     found |-> found, returned |-> returned,
     full |-> Cardinality(DOMAIN cache) >= maxSize /\ key \notin DOMAIN cache,
     expired |-> key \in DOMAIN cache /\ now > cache[key].expiresAt]

\* the key becomes the most recently used one
used(key) == SelectSeq(usedOrder, LAMBDA k : k # key) \o <<key>>

DoGet(op, key) ==
    \E got \in {get(This, key, now)} :
        /\ cache' = got.this.cache
        /\ accessOrder' = got.this.accessOrder
        /\ usedOrder' = IF got.found THEN used(key) ELSE usedOrder
        /\ lastOp' = Operation(op, key, got.found,
                               IF op = "has" THEN got.found ELSE got.value)
        /\ UNCHANGED lastSet

Get ==
    /\ lastOp # Null
    /\ \E key \in CacheKeys : DoGet("get", key)
    /\ UNCHANGED <<cacheName, enabled, maxSize, now, runs, stored>>
    /\ UNCHANGED <<pvars, qvars, fvars, hvars, rvars>>

\* has(key) is get(key) !== undefined
Has ==
    /\ lastOp # Null
    /\ \E key \in CacheKeys : DoGet("has", key)
    /\ UNCHANGED <<cacheName, enabled, maxSize, now, runs, stored>>
    /\ UNCHANGED <<pvars, qvars, fvars, hvars, rvars>>

Set ==
    /\ lastOp # Null
    /\ \E key \in CacheKeys, value \in CacheValues, ttl \in {0, MaxTTL} :
        \E after \in {set(This, key, value, ttl, now)} :
            /\ cache' = after.cache
            /\ accessOrder' = after.accessOrder
            /\ usedOrder' = IF enabled THEN used(key) ELSE usedOrder
            /\ lastSet' = IF enabled THEN mapSet(lastSet, key, value) ELSE lastSet
            /\ lastOp' = [Operation("set", key, FALSE, Undefined)
                            EXCEPT !.returned = ttl]
    /\ UNCHANGED <<cacheName, enabled, maxSize, now, runs, stored>>
    /\ UNCHANGED <<pvars, qvars, fvars, hvars, rvars>>

Clear ==
    /\ lastOp # Null
    /\ cache' = clear(This).cache
    /\ accessOrder' = clear(This).accessOrder
    /\ lastOp' = [op |-> "clear"]
    /\ UNCHANGED <<usedOrder, lastSet>>
    /\ UNCHANGED <<cacheName, enabled, maxSize, now, runs, stored>>
    /\ UNCHANGED <<pvars, qvars, fvars, hvars, rvars>>

\* the clock moves on
Tick ==
    /\ cacheName # "none"
    /\ now < MaxNow
    /\ now' = now + 1
    /\ lastOp' = IF lastOp = Null THEN Null ELSE [op |-> "tick"]
    /\ UNCHANGED <<cacheName, enabled, maxSize, cache, accessOrder,
                   usedOrder, lastSet, runs, stored>>
    /\ UNCHANGED <<pvars, qvars, fvars, hvars, rvars>>

NextCache ==
    \/ Get
    \/ Has
    \/ Set
    \/ Clear
    \/ Tick

SpecCache == InitCache /\ [][NextCache]_vars

\* what the external service answers a call: for RxNorm the outcome of the
\* exact and approximate lookups, for the FDA directory the answer to the
\* search (an outage, or one package)
ExternalAnswers(name, drugName) ==
    IF name = "rxnorm" THEN normalizeToRxCUIOutcomes(drugName)
    ELSE {r \in FDAResponses :
            r.kind = "ok" => r.packages \in {<<PkgMetformin>>, <<PkgJanumet>>}}

\* the names of the calls that share the instance: two of them share a key
SharedDrugNames == {n \in CachedDrugNames : Len(n) > 3} \cup {<<" ">>}

\* the adapter's result once the service answered
adapterOutcome(name, drugName, answer) ==
    IF name = "rxnorm" THEN answer ELSE searchNDCsByDrug(drugName, answer)

\* the failure for an empty name, returned before the cache is read
emptyNameOutcome(name) ==
    IF name = "rxnorm" THEN err(DrugNormalizationError) ELSE err(DrugNotFoundError)

IdleRun == [pc |-> "idle"]

InitShared ==
    /\ QtyIdle
    /\ FnIdle
    /\ PipelineIdle
    /\ PostIdle
    /\ RetryIdle
    /\ NewCache({"rxnorm", "fda"})
    /\ usedOrder = <<>> /\ lastSet = NoEntries
    /\ lastOp = Null
    /\ runs = [i \in 1..MaxRuns |-> IdleRun]
    /\ stored = {}

\* an adapter is called: validation and the cache lookup run before its
\* first await (rxnorm.ts:33-46, fdaNdc.ts:136-148)
RunStarts(i) ==
    /\ runs[i].pc = "idle"
    /\ \A j \in 1..(i - 1) : runs[j].pc # "idle"
    /\ \E drugName \in SharedDrugNames :
        \E answer \in ExternalAnswers(cacheName, drugName) :
            IF trim(drugName) = <<>>
            THEN /\ runs' = [runs EXCEPT ![i] =
                        [pc |-> "done", drugName |-> drugName, answer |-> answer,
                         hit |-> FALSE, result |-> emptyNameOutcome(cacheName)]]
                 /\ UNCHANGED <<cache, accessOrder>>
            ELSE \E got \in {get(This, cacheKey(cacheName, drugName), now)} :
                    /\ cache' = got.this.cache
                    /\ accessOrder' = got.this.accessOrder
                    /\ runs' = [runs EXCEPT ![i] =
                            IF got.found
                            THEN [pc |-> "done", drugName |-> drugName,
                                  answer |-> answer, hit |-> TRUE,
                                  result |-> ok(got.value)]
                            ELSE [pc |-> "await", drugName |-> drugName,
                                  answer |-> answer, hit |-> FALSE,
                                  result |-> Null]]
    /\ UNCHANGED <<cacheName, enabled, maxSize, now, usedOrder, lastSet,
                   lastOp, stored>>
    /\ UNCHANGED <<pvars, qvars, fvars, hvars, rvars>>

\* the awaited answer arrives: a success is stored, then returned
\* (rxnorm.ts:48-61, fdaNdc.ts:158-227)
RunCompletes(i) ==
    /\ runs[i].pc = "await"
    /\ \E result \in {adapterOutcome(cacheName, runs[i].drugName, runs[i].answer)} :
        /\ runs' = [runs EXCEPT ![i].pc = "done", ![i].result = result]
        /\ IF result.success
           THEN \E after \in {set(This, cacheKey(cacheName, runs[i].drugName),
                                  result.data, MaxTTL, now)} :
                    /\ cache' = after.cache
                    /\ accessOrder' = after.accessOrder
                    /\ stored' = stored \cup
                        {<<cacheKey(cacheName, runs[i].drugName), result.data>>}
           ELSE UNCHANGED <<cache, accessOrder, stored>>
    /\ UNCHANGED <<cacheName, enabled, maxSize, now, usedOrder, lastSet, lastOp>>
    /\ UNCHANGED <<pvars, qvars, fvars, hvars, rvars>>

NextShared ==
    \/ \E i \in 1..MaxRuns : RunStarts(i)
    \/ \E i \in 1..MaxRuns : RunCompletes(i)
    \/ Tick

SpecShared == InitShared /\ [][NextShared]_vars

(***************************************************************************)
(* Harness of the quantity calculator: one call on an arbitrary record,    *)
(* then a second call that differs from the first in one argument.         *)
(***************************************************************************)
\* records without a dose schedule
PlainSigs ==
    [dose : 1..MaxDose, frequency : Frequencies, duration : 0..MaxDays,
     doseRange : DoseRanges, doseSchedule : {<<>>}]

\* records with a dose schedule
ScheduledSigs ==
    [dose : {1}, frequency : {[type |-> "times_per_day", value |-> 1]},
     duration : 0..MaxDays,
     doseRange : {NoRange, [min |-> 1, max |-> MaxDose]},
     doseSchedule : Schedules \ {<<>>}]

QtySigs == PlainSigs \cup ScheduledSigs

\* the frequencies of the second call: one of each variant and period
FrequencySamples ==
    {f \in Frequencies :
        \/ f.type \in {"times_per_day", "times_per_period"} /\ f.value = MaxFreqValue
        \/ f.type = "specific_times" /\ Len(f.times) = MaxTimes
        \/ f.type = "as_needed" /\ f.maxPerDay = 0}

InitQty ==
    /\ qpc = "input"
    /\ qsig \in QtySigs
    /\ qdays \in 1..MaxDays
    /\ qres = 0
    /\ qvar = "none" /\ qsig2 = Null /\ qdays2 = 0 /\ qres2 = 0
    /\ PipelineIdle
    /\ FnIdle
    /\ PostIdle
    /\ RetryIdle
    /\ CacheIdle

QtyCalc ==
    /\ qpc = "input"
    /\ qres' = calculateTotalQuantity(qsig, qdays)
    /\ qpc' = "done"
    /\ UNCHANGED <<qsig, qdays, qvar, qsig2, qdays2, qres2>>
    /\ UNCHANGED <<pvars, fvars, hvars, rvars, cvars>>

QtySecond(kind, sig2, days2) ==
    /\ qpc = "done"
    /\ qvar' = kind
    /\ qsig2' = sig2
    /\ qdays2' = days2
    /\ qres2' = calculateTotalQuantity(sig2, days2)
    /\ qpc' = "varied"
    /\ UNCHANGED <<qsig, qdays, qres>>
    /\ UNCHANGED <<pvars, fvars, hvars, rvars, cvars>>

QtyVaryDays ==
    \E d \in 1..MaxDays : QtySecond("daysSupply", qsig, d)

QtyVaryDose ==
    \E x \in 1..MaxDose : QtySecond("dose", [qsig EXCEPT !.dose = x], qdays)

QtyVaryDoseRange ==
    \E r \in DoseRanges : QtySecond("doseRange", [qsig EXCEPT !.doseRange = r], qdays)

QtyVaryFrequency ==
    \E f \in FrequencySamples : QtySecond("frequency", [qsig EXCEPT !.frequency = f], qdays)

NextQty ==
    \/ QtyCalc
    \/ QtyVaryDays
    \/ QtyVaryDose
    \/ QtyVaryDoseRange
    \/ QtyVaryFrequency

SpecQty == InitQty /\ [][NextQty]_vars

(***************************************************************************)
(* orchestrator.ts: strength comparison                                    *)
(***************************************************************************)
\* index after (mg|mcg|g|ml|units?|iu) matched at p, or 0
UnitEndUnbounded(s, p) ==
    IF \E k \in 1..Len(StrengthUnits) : HasAt(s, p, StrengthUnits[k])
    THEN p + Len(StrengthUnits[CHOOSE k \in 1..Len(StrengthUnits) :
                     /\ HasAt(s, p, StrengthUnits[k])
                     /\ \A o \in 1..(k - 1) : ~HasAt(s, p, StrengthUnits[o])])
    ELSE 0

\* index after (\d+(?:\.\d+)?)(mg|mcg|g|ml|units?|iu) matched at i, or 0
StrengthEnd(s, i) ==
    IF NumberEnd(s, i) = 0 THEN 0 ELSE UnitEndUnbounded(s, NumberEnd(s, i))

\* .replace(/\s+/g, '')
removeWhitespace(s) == SelectSeq(s, LAMBDA c : ~IsSpace(c))

\* .replace(/(\d+(?:\.\d+)?)(mg|mcg|g|ml|units?|iu)/i, '$1$2'): the first
\* match is replaced by its two groups, one after the other
rejoinFirstStrength(s) ==
    IF \E i \in 1..Len(s) : StrengthEnd(toLowerCase(s), i) > 0
    THEN CHOOSE r \in {SubSeq(s, 1, i - 1)
                         \o SubSeq(s, i, NumberEnd(s, i) - 1)
                         \o SubSeq(s, NumberEnd(s, i), StrengthEnd(toLowerCase(s), i) - 1)
                         \o SubSeq(s, StrengthEnd(toLowerCase(s), i), Len(s)) :
                       i \in {CHOOSE m \in 1..Len(s) :
                                /\ StrengthEnd(toLowerCase(s), m) > 0
                                /\ \A o \in 1..(m - 1) : StrengthEnd(toLowerCase(s), o) = 0}} :
             TRUE
    ELSE s

normalizeStrength_keepCase(strength) ==
    CHOOSE r \in {rejoinFirstStrength(t) : t \in {removeWhitespace(strength)}} : TRUE

normalizeStrength(strength) ==
    CHOOSE r \in {rejoinFirstStrength(t) :
                    t \in {removeWhitespace(l) : l \in {toLowerCase(strength)}}} : TRUE

strengthsMatch(requestedStrength, packageStrength) ==
    normalizeStrength(requestedStrength) = normalizeStrength(packageStrength)

(***************************************************************************)
(* Harness of the helper functions: one call on arguments drawn from the   *)
(* pools below.                                                            *)
(***************************************************************************)
\* names a prescriber may type
RequestedNames == {<<"M", "e", "t", "f", "o", "r", "m", "i", "n", " ", "5", "0", "0", "m", "g">>, <<"J", "a", "n", "u", "m", "e", "t">>, <<"M", "e", "t">>}

GenericNames == {<<"M", "e", "t", "f", "o", "r", "m", "i", "n">>, <<"S", "i", "t", "a", "g", "l", "i", "p", "t", "i", "n", " ", "a", "n", "d", " ", "M", "e", "t", "f", "o", "r", "m", "i", "n">>, <<"L", "i", "s", "i", "n", "o", "p", "r", "i", "l">>}

BrandNames == {<<>>, <<"J", "a", "n", "u", "m", "e", "t">>, <<"P", "r", "i", "n", "i", "v", "i", "l">>}

\* directory packages by their names (the name filter reads nothing else)
NamedPackages == [genericName : GenericNames, brandName : BrandNames]

FilterCalls ==
    [fn : {"filterNDCsByDrugName"},
     ndcs : SeqsUpTo(NamedPackages, MaxCatalog) \ {<<>>},
     name : RequestedNames]

Strengths == {<<"5", "0", "0", "m", "g">>, <<"5", "0", "0", " ", "M", "G">>, <<"5", "0", "0", "M", "g">>, <<"2", "5", "0", "m", "g">>, <<"1", ".", "5", " ", "G">>, <<"5", "0", "0", " ", "m", "c", "g">>}

StrengthCalls ==
    [fn : {"strengthsMatch"}, requested : Strengths, package : Strengths]

\* a dose range is inferred only for a record that then has one
WarningCalls ==
    {c \in [fn : {"collectWarnings"},
            sig : {SigOnceDaily, SigRangePRN, SigWeeklyShort},
            aiWarnings : AIWarnings,
            dispensed : 1..MaxDispensed,
            needed : 1..MaxNeeded,
            inferred : BOOLEAN] :
        c.inferred => c.sig.doseRange # NoRange}

InitFn ==
    /\ fpc = "input"
    /\ fargs \in FilterCalls \cup StrengthCalls \cup WarningCalls
    /\ fres = Null
    /\ QtyIdle
    /\ PipelineIdle
    /\ PostIdle
    /\ RetryIdle
    /\ CacheIdle

\* orchestrator.ts lines 294-298
CallFilterNDCsByDrugName ==
    /\ fpc = "input" /\ fargs.fn = "filterNDCsByDrugName"
    /\ fres' = filterNDCsByDrugName(fargs.ndcs, normalizeDrugNameForMatch(fargs.name))
    /\ fpc' = "done"
    /\ UNCHANGED <<fargs, qvars, pvars, hvars, rvars, cvars>>

\* strengthsMatch, called with its arguments in either order
CallStrengthsMatch ==
    /\ fpc = "input" /\ fargs.fn = "strengthsMatch"
    /\ fres' = [forward |-> strengthsMatch(fargs.requested, fargs.package),
                backward |-> strengthsMatch(fargs.package, fargs.requested)]
    /\ fpc' = "done"
    /\ UNCHANGED <<fargs, qvars, pvars, hvars, rvars, cvars>>

\* orchestrator.ts lines 334-343
CallCollectWarnings ==
    /\ fpc = "input" /\ fargs.fn = "collectWarnings"
    /\ fres' = collectWarnings(fargs.sig, fargs.aiWarnings,
                               fillDifference(fargs.dispensed, fargs.needed),
                               fargs.needed, fargs.inferred)
    /\ fpc' = "done"
    /\ UNCHANGED <<fargs, qvars, pvars, hvars, rvars, cvars>>

NextFn ==
    \/ CallFilterNDCsByDrugName
    \/ CallStrengthsMatch
    \/ CallCollectWarnings

SpecFn == InitFn /\ [][NextFn]_vars

C4_ScheduleDeterminesQuantity ==
    /\ (qpc \in {"done", "varied"} /\ qsig.doseSchedule # <<>>) =>
        LET Max(a, b) == IF a >= b THEN a ELSE b
            s == qsig.doseSchedule
            RECURSIVE Sum(_)
            Sum(i) == IF i = 0 THEN 0
                      ELSE Sum(i - 1) + s[i].dose * Max(s[i].occurrencesPerDay, 1)
            E == IF qsig.duration # 0 /\ qsig.duration < qdays THEN qsig.duration ELSE qdays
            num == Sum(Len(s)) * E
        IN  qres * DoseDen >= num /\ (qres - 1) * DoseDen < num
    /\ (qpc = "varied" /\ qsig.doseSchedule # <<>>
        /\ qvar \in {"dose", "doseRange", "frequency"}) => qres2 = qres

\* C4 witness: the insulin regimen (10 x 3 + 15 x 1, here 1 x 2 + 2 x 1 half
\* units) with a different frequency in the second call.
C4_Witness ==
    /\ qpc = "varied"
    /\ qvar = "frequency"
    /\ qsig2.frequency # qsig.frequency
    /\ qsig.doseSchedule = <<[dose |-> 1, occurrencesPerDay |-> 2],
                             [dose |-> 2, occurrencesPerDay |-> 0]>>
    /\ qsig.doseRange # NoRange
    /\ qdays = 3
    /\ qsig.duration = 0
    /\ qres * DoseDen >= 12 /\ (qres - 1) * DoseDen < 12
    /\ qres2 = qres

C6_Monotone ==
    /\ (qpc = "varied" /\ qvar = "daysSupply") =>
        /\ (qdays <= qdays2 => qres <= qres2)
        /\ (qdays2 <= qdays => qres2 <= qres)
    /\ (qpc = "varied" /\ qvar = "dose") =>
        /\ (qsig.dose <= qsig2.dose => qres <= qres2)
        /\ (qsig2.dose <= qsig.dose => qres2 <= qres)

\* C6 witness: a record with a duration, a larger days supply in the second
\* call and a strictly larger quantity.
C6_Witness ==
    /\ qpc = "varied"
    /\ qvar = "daysSupply"
    /\ qsig.duration = 2
    /\ qsig.doseSchedule = <<>>
    /\ qdays = 1
    /\ qdays2 = 3
    /\ qres < qres2

(***************************************************************************)
(* Claims about calculatePrescription (checked under Spec)                 *)
(***************************************************************************)

\* C1: the adapters are invoked one at a time in the order parseSIG,
\* normalizeToRxCUI, searchNDCsByDrug, selectOptimalNDCs; every adapter but
\* searchNDCsByDrug is invoked at most once; an input that fails validation
\* invokes none; and once the run has ended nothing more is invoked.
C1_AdaptersInOrder ==
    [][LET rank(c) == CASE c.adapter = "parseSIG" -> 1
                        [] c.adapter = "normalizeToRxCUI" -> 2
                        [] c.adapter = "searchNDCsByDrug" -> 3
                        [] c.adapter = "selectOptimalNDCs" -> 4
           invalid == \/ Len(input.drugName) = 0
                      \/ Len(input.sig) = 0
                      \/ input.daysSupply <= 0
       IN  /\ outcome.kind = "none"
           /\ \/ calls' = calls
              \/ /\ Len(calls') = Len(calls) + 1
                 /\ SubSeq(calls', 1, Len(calls)) = calls
                 /\ ~invalid
                 /\ IF calls = <<>>
                    THEN rank(calls'[1]) = 1
                    ELSE LET last == rank(calls[Len(calls)])
                             new == rank(calls'[Len(calls')])
                         IN  \/ new = last + 1
                             \/ /\ new = 3 /\ last = 3
                                /\ Cardinality({i \in DOMAIN calls :
                                                  rank(calls[i]) = 3}) = 1
           /\ outcome'.kind # "none" => calls' = calls]_vars

\* a run that searched twice and reached the selector
C1_Witness ==
    /\ pc = "returned" /\ outcome.kind = "success"
    /\ Len(calls) = 5
    /\ calls[3].adapter = "searchNDCsByDrug" /\ calls[4].adapter = "searchNDCsByDrug"
    /\ calls[3].arg # calls[4].arg

\* C2: a run that ends in a terminal failure carries the typed error and a
\* context holding exactly what was populated before the failure (parsedSIG,
\* rxcui, quantityNeeded, doseRangeInferred); a successful run carries none.
C2_FailureCarriesContext ==
    LET ended == pc \in {"returned", "thrown"}
        parsed == parsedSIG # Null
        normalized == rxcuiResult # Null /\ rxcuiResult.success
        derived == /\ ndcsResult # Null /\ ndcsResult.success
                   /\ \E i \in DOMAIN ndcsResult.data :
                        ndcsResult.data[i].status = "active"
        populated == {k \in {"parsedSIG"} : parsed}
                     \cup {k \in {"rxcui"} : normalized}
                     \cup {k \in {"quantityNeeded"} : derived}
                     \cup {k \in {"doseRangeInferred"} : parsed /\ doseRangeInferred}
    IN  /\ ended /\ outcome.kind # "success" =>
            /\ outcome.kind = "failure"
            /\ outcome.error \in {ValidationError, InvalidSIGError, NDCNotFoundError,
                                  DrugNormalizationError, AIServiceError,
                                  DrugNotFoundError}
            /\ IF populated = {}
               THEN outcome.context = Undefined
               ELSE /\ DOMAIN outcome.context = populated
                    /\ parsed => outcome.context["parsedSIG"] = parsedSIG
                    /\ normalized => outcome.context["rxcui"] = rxcuiResult.data.rxcui
                    /\ derived => outcome.context["quantityNeeded"] = quantityNeeded
                    /\ parsed /\ doseRangeInferred =>
                           outcome.context["doseRangeInferred"] = TRUE
        /\ ended /\ outcome.kind = "success" => "context" \notin DOMAIN outcome

\* C7: in a successful result totalUnitsDispensed is the sum of totalUnits
\* over selectedPackages and fillDifference is totalUnitsDispensed minus
\* totalQuantityNeeded.
C7_ResultTotals ==
    outcome.kind = "success" =>
        LET r == outcome.data
            p == r.selectedPackages
            RECURSIVE sumTo(_)
            sumTo(k) == IF k = 0 THEN 0 ELSE sumTo(k - 1) + p[k].totalUnits
        IN  /\ r.totalUnitsDispensed = sumTo(Len(p))
            /\ r.fillDifference = r.totalUnitsDispensed - r.totalQuantityNeeded
            /\ r.totalQuantityNeeded = quantityNeeded

\* two different packages selected and an underfill
C7_Witness ==
    /\ outcome.kind = "success"
    /\ Len(outcome.data.selectedPackages) = 2
    /\ outcome.data.selectedPackages[1].package # outcome.data.selectedPackages[2].package
    /\ outcome.data.fillDifference < 0

\* C8: a successful selection has at least one package, every selected
\* package has a whole quantity >= 1 and totalUnits = packageSize * quantity,
\* and the same holds for selectedPackages of a successful result.
C8_SelectedPackages ==
    LET wellFormed(p) ==
            /\ Len(p) >= 1
            /\ \A i \in DOMAIN p :
                 /\ p[i].quantity \in Nat /\ p[i].quantity >= 1
                 /\ p[i].totalUnits = p[i].package.packageSize * p[i].quantity
    IN  /\ selectionResult # Null /\ selectionResult.kind = "ok" =>
               wellFormed(selectionResult.data.selectedPackages)
        /\ outcome.kind = "success" =>
               /\ wellFormed(outcome.data.selectedPackages)
               /\ outcome.data.selectedPackages = selectionResult.data.selectedPackages

\* a package selected twice over
C8_Witness ==
    /\ outcome.kind = "success"
    /\ \E i \in DOMAIN outcome.data.selectedPackages :
         /\ outcome.data.selectedPackages[i].quantity = 2
         /\ outcome.data.selectedPackages[i].totalUnits
              = 2 * outcome.data.selectedPackages[i].package.packageSize

\* C9: when the catalog lookup succeeds and none of its packages is active
\* the run ends with NDCNotFoundError, selectOptimalNDCs is never invoked and
\* nothing is selected.
C9_NoActivePackage ==
    (/\ ndcsResult # Null /\ ndcsResult.success
     /\ \A i \in DOMAIN ndcsResult.data : ndcsResult.data[i].status # "active")
    => /\ pc = "returned"
       /\ outcome.kind = "failure"
       /\ outcome.error = NDCNotFoundError
       /\ \A i \in DOMAIN calls : calls[i].adapter # "selectOptimalNDCs"
       /\ selectionResult = Null

\* the lookup answered with discontinued packages only
C9_Witness ==
    /\ ndcsResult # Null /\ ndcsResult.success
    /\ Len(ndcsResult.data) >= 1
    /\ \A i \in DOMAIN ndcsResult.data : ndcsResult.data[i].status = "inactive"
    /\ outcome.kind = "failure" /\ outcome.error = NDCNotFoundError

\* C10: whenever an active package exists the candidate set is non-empty and
\* the run does not fail for want of a package; the set handed to
\* selectOptimalNDCs is the ingredient-filtered set when that is non-empty and
\* the whole active set otherwise.
C10_CandidatesNonEmpty ==
    (/\ ndcsResult # Null /\ ndcsResult.success
     /\ \E i \in DOMAIN ndcsResult.data : ndcsResult.data[i].status = "active")
    => /\ candidateNDCs # <<>>
       /\ outcome.kind = "failure" => outcome.error # NDCNotFoundError
       /\ quantityNeeded > 0 =>
              \E i \in DOMAIN calls : calls[i] = Call("selectOptimalNDCs", candidateNDCs)
       /\ pc = "selectOptimalNDCs" =>
              LET active == SelectSeq(ndcsResult.data, LAMBDA n : n.status = "active")
                  requested == normalizeDrugNameForMatch(
                                   IF rxcuiResult.success THEN rxcuiResult.data.name
                                   ELSE input.drugName)
                  filtered == filterNDCsByDrugName(active, requested)
              IN  candidateNDCs = IF filtered # <<>> THEN filtered ELSE active

\* the filter matched nothing and the active packages were handed on
C10_Witness ==
    /\ pc = "selectOptimalNDCs"
    /\ ndcsResult.success
    /\ candidateNDCs = SelectSeq(ndcsResult.data, LAMBDA n : n.status = "active")
    /\ filterNDCsByDrugName(candidateNDCs,
           normalizeDrugNameForMatch(IF rxcuiResult.success THEN rxcuiResult.data.name
                                     ELSE input.drugName)) = <<>>

(***************************************************************************)
(* Claims about the helper functions (checked under SpecFn)                *)
(***************************************************************************)

\* C11: filterNDCsByDrugName keeps a package if and only if its normalized
\* generic name contains the requested token and its raw generic name does
\* not look multi-ingredient, or its normalized brand name contains the
\* token.
C11_FilterKeepsIff ==
    fpc = "done" /\ fargs.fn = "filterNDCsByDrugName" =>
        \E token \in {normalizeDrugNameForMatch(fargs.name)} :
            fres = SelectSeq(fargs.ndcs,
                       LAMBDA pkg :
                           \/ /\ includes(normalizeDrugNameForMatch(pkg.genericName), token)
                              /\ ~MULTI_INGREDIENT_PATTERN(pkg.genericName)
                           \/ /\ pkg.brandName # <<>>
                              /\ includes(normalizeDrugNameForMatch(pkg.brandName), token))

\* C12: strengthsMatch is symmetric, and two strengths that differ only in
\* whitespace and letter case match.
C12_StrengthsMatchSymmetric ==
    fpc = "done" /\ fargs.fn = "strengthsMatch" =>
        /\ fres.forward = fres.backward
        /\ toLowerCase(SelectSeq(fargs.requested, LAMBDA c : c # " "))
             = toLowerCase(SelectSeq(fargs.package, LAMBDA c : c # " "))
           => fres.forward

\* two different spellings of one strength were compared
C12_Witness ==
    /\ fpc = "done" /\ fargs.fn = "strengthsMatch"
    /\ fargs.requested # fargs.package
    /\ Len(fargs.requested) # Len(fargs.package)
    /\ fres.forward /\ fres.backward

\* C13: collectWarnings emits an overfill warning (severity warning) exactly
\* when fillDifference > 0.1 x quantityNeeded and an underfill warning
\* (severity error) exactly when fillDifference < 0; 75 units against a need
\* of 60 give an overfill warning.
C13_FillWarnings ==
    fpc = "done" /\ fargs.fn = "collectWarnings" =>
        LET emitted == 1..(Len(fres) - Len(fargs.aiWarnings))
            has(type, severity) ==
                \E i \in emitted : fres[i].type = type /\ fres[i].severity = severity
            count(type) == Cardinality({i \in emitted : fres[i].type = type})
        IN  /\ has("overfill", "warning")
                <=> 10 * (fargs.dispensed - fargs.needed) > fargs.needed
            /\ has("underfill", "error") <=> fargs.dispensed < fargs.needed
            /\ count("overfill") = (IF has("overfill", "warning") THEN 1 ELSE 0)
            /\ count("underfill") = (IF has("underfill", "error") THEN 1 ELSE 0)
            /\ fargs.dispensed = 75 /\ fargs.needed = 60 => has("overfill", "warning")

\* a fill exactly 10% over the need, which draws neither warning
C13_Witness ==
    /\ fpc = "done" /\ fargs.fn = "collectWarnings"
    /\ fargs.needed = 60 /\ fargs.dispensed = 66
    /\ fargs.aiWarnings = <<>>
    /\ \A i \in DOMAIN fres : fres[i].type \notin {"overfill", "underfill"}

C15_WarningOrder ==
    outcome.kind = "success" =>
        LET w == outcome.data.warnings
            ai == selectionResult.data.warnings
            n == Len(w) - Len(ai)
            rank(type) == CASE type = "low_confidence_parse" -> 1
                            [] type = "ambiguous_sig" -> 2
                            [] type = "dose_range_assumption" -> 3
                            [] type = "overfill" -> 4
                            [] type = "underfill" -> 5
                            [] OTHER -> 6
        IN  /\ n >= 0
            /\ SubSeq(w, n + 1, Len(w)) = ai
            /\ \A i \in 1..n : rank(w[i].type) <= 5
            /\ \A i, j \in 1..n : i < j => rank(w[i].type) < rank(w[j].type)
            /\ w = collectWarnings(outcome.data.parsedSIG, ai,
                                   outcome.data.fillDifference,
                                   outcome.data.totalQuantityNeeded,
                                   doseRangeInferred)

\* two own warnings followed by two of the selector, one of a type the
\* orchestrator also uses
C15_Witness ==
    /\ outcome.kind = "success"
    /\ Len(selectionResult.data.warnings) = 2
    /\ Len(outcome.data.warnings) >= 4
    /\ outcome.data.warnings[Len(outcome.data.warnings)].type = "ambiguous_sig"
    /\ outcome.data.warnings[1].type = "low_confidence_parse"

\* C16: a failure of the normalizer never ends the run: the catalog lookup
\* is called with the raw drugName, DrugNormalizationError is never the error
\* of the outcome, and a successful result then has no rxcui.
C16_NormalizerBestEffort ==
    /\ outcome.kind \in {"failure", "thrown"} => outcome.error # DrugNormalizationError
    /\ pc = "searchNDCsByDrug" => outcome.kind = "none"
    /\ (rxcuiResult # Null /\ ~rxcuiResult.success) =>
          /\ Len(calls) >= 3
          /\ calls[3] = Call("searchNDCsByDrug", input.drugName)
          /\ drugNameForSearch = input.drugName
          /\ "rxcui" \notin DOMAIN context
          /\ outcome.kind = "success" => "rxcui" \notin DOMAIN outcome.data

\* a successful run whose normalizer failed
C16_Witness ==
    /\ outcome.kind = "success"
    /\ ~rxcuiResult.success
    /\ rxcuiResult.error = DrugNormalizationError
    /\ "rxcui" \notin DOMAIN outcome.data

\* C17 as stated: the first catalog lookup takes the normalized name when
\* normalization succeeded and the raw drugName otherwise; a failed
\* normalized-name search is retried exactly once with the raw drugName; the
\* catalog failure is terminal only after the raw-name search failed; at most
\* two lookups, the second only after a failed first.
C17_SearchRetry ==
    [][LET searches(cs) == SelectSeq(cs, LAMBDA c : c.adapter = "searchNDCsByDrug")
           normalized == rxcuiResult'.success
       IN  /\ pc = "normalizeToRxCUI" =>
                /\ Len(searches(calls')) = 1
                /\ searches(calls')[1].arg =
                      (IF normalized THEN rxcuiResult'.data.name ELSE input.drugName)
           /\ pc = "searchNDCsByDrug" =>
                IF normalized /\ ~ndcsResult'.success
                THEN /\ outcome'.kind = "none"
                     /\ calls' = Append(calls, Call("searchNDCsByDrug", input.drugName))
                ELSE searches(calls') = searches(calls)
           /\ pc = "searchNDCsByDrugRetry" => searches(calls') = searches(calls)
           /\ Len(searches(calls')) <= 2
           /\ (outcome'.kind = "failure" /\ outcome'.error = DrugNotFoundError) =>
                /\ ~ndcsResult'.success
                /\ searches(calls')[Len(searches(calls'))].arg = input.drugName]_vars

\* C17 amended: the first lookup takes the normalized name when normalization
\* succeeded with a non-empty name and the raw drugName otherwise; a failed
\* first search is retried, exactly once and with the raw drugName, exactly
\* when the name it used differs from the raw drugName.
C17_SearchRetryUnlessSameName ==
    [][LET searches(cs) == SelectSeq(cs, LAMBDA c : c.adapter = "searchNDCsByDrug")
           normalized == rxcuiResult'.success /\ rxcuiResult'.data.name # <<>>
       IN  /\ pc = "normalizeToRxCUI" =>
                /\ Len(searches(calls')) = 1
                /\ searches(calls')[1].arg =
                      (IF normalized THEN rxcuiResult'.data.name ELSE input.drugName)
           /\ pc = "searchNDCsByDrug" =>
                IF ~ndcsResult'.success /\ searches(calls)[1].arg # input.drugName
                THEN /\ outcome'.kind = "none"
                     /\ calls' = Append(calls, Call("searchNDCsByDrug", input.drugName))
                ELSE searches(calls') = searches(calls)
           /\ pc = "searchNDCsByDrugRetry" => searches(calls') = searches(calls)
           /\ Len(searches(calls')) <= 2
           /\ (outcome'.kind = "failure" /\ outcome'.error = DrugNotFoundError) =>
                /\ ~ndcsResult'.success
                /\ searches(calls')[Len(searches(calls'))].arg = input.drugName]_vars

\* a run that failed on the catalog after the retry with the raw name
C17_Witness ==
    /\ outcome.kind = "failure" /\ outcome.error = DrugNotFoundError
    /\ rxcuiResult.success
    /\ Len(calls) = 4
    /\ calls[3].arg = rxcuiResult.data.name
    /\ calls[4].arg = input.drugName

\* C18: a derived quantity <= 0 ends the run with InvalidSIGError and the
\* selector is not invoked; a successful result has totalQuantityNeeded >= 1
\* and the selector is only called with a positive quantity.
C18_PositiveQuantity ==
    LET selectorCalled == \E i \in DOMAIN calls : calls[i].adapter = "selectOptimalNDCs"
        derived == "quantityNeeded" \in DOMAIN context
    IN  /\ (derived /\ context["quantityNeeded"] <= 0) =>
              /\ pc = "returned"
              /\ outcome.kind = "failure"
              /\ outcome.error = InvalidSIGError
              /\ ~selectorCalled
        /\ selectorCalled => derived /\ quantityNeeded = context["quantityNeeded"]
                                       /\ quantityNeeded >= 1
        /\ outcome.kind = "success" => outcome.data.totalQuantityNeeded >= 1

\* a run whose record has a schedule of zero doses
C18_Witness ==
    /\ outcome.kind = "failure" /\ outcome.error = InvalidSIGError
    /\ "quantityNeeded" \in DOMAIN context /\ context["quantityNeeded"] = 0
    /\ Len(calls) = 3
    /\ Len(filterActive(ndcsResult.data)) > 0

\* C19: every adapter call ends by returning an outcome and none raises,
\* whatever the external response and the configuration; calculatePrescription
\* therefore always returns an outcome and never throws.
C19_AdaptersNeverRaise ==
    /\ pc # "thrown"
    /\ outcome.kind # "thrown"
    /\ selectionResult # Null => selectionResult.kind # "throw"

\* C20: adviseOnError is invoked only after calculatePrescription returned a
\* failure, never after a success or for a body the schema rejects; and
\* whether it succeeds, fails or throws, the response carries the original
\* error's code, message and status code, with advice only when it succeeded.
C20_AdviceNeverMasks ==
    /\ (hpc = "adviseOnError" \/ hadvice # Null) =>
          /\ pc = "returned" /\ outcome.kind = "failure"
          /\ hbody # MalformedBody /\ PrescriptionInputSchema(hbody)
    /\ (hpc = "responded" /\ hadvice # Null) =>
          /\ hresponse.body.success = FALSE
          /\ hresponse.body.error.code = errorField(outcome.error, "code")
          /\ hresponse.body.error.message = errorField(outcome.error, "message")
          /\ "statusCode" \in DOMAIN outcome.error =>
                /\ hresponse.body.error.statusCode = outcome.error.statusCode
                /\ hresponse.status = outcome.error.statusCode
          /\ hresponse.body.error.advice =
                (IF hadvice.kind = "ok" THEN hadvice.data ELSE Undefined)
    /\ (hpc = "responded" /\ outcome.kind = "failure") => hadvice # Null

\* the adviser threw and the response still names the pipeline's error
C20_Witness ==
    /\ hpc = "responded"
    /\ hadvice # Null /\ hadvice.kind = "throw"
    /\ outcome.kind = "failure"
    /\ hresponse.body.error.code = outcome.error.code
    /\ hresponse.body.error.advice = Undefined

\* C24: when the catalog lookup failed because its network call failed after
\* the retries, the error calculatePrescription returns is ExternalAPIError
\* (code EXTERNAL_API_ERROR), not one of the not-found kinds.
C24_TransportFailureKind ==
    (/\ outcome.kind = "failure"
     /\ ndcsResult # Null /\ ~ndcsResult.success
     /\ fdaResponse # Null /\ fdaResponse.kind = "throw")
    => /\ outcome.error = ExternalAPIError
       /\ outcome.error.code = "EXTERNAL_API_ERROR"

\* C29: in a successful result every selected package is one of the
\* candidates handed to the selector (result.availableNDCs), every candidate
\* is active and is part of the catalog's answer; no inactive package and no
\* package outside that answer is selected.
C29_SelectedAreActiveCandidates ==
    outcome.kind = "success" =>
        LET r == outcome.data
            elements(seq) == {seq[i] : i \in DOMAIN seq}
        IN  /\ r.availableNDCs = candidateNDCs
            /\ calls[Len(calls)] = Call("selectOptimalNDCs", r.availableNDCs)
            /\ \A i \in DOMAIN r.selectedPackages :
                  /\ r.selectedPackages[i].package \in elements(r.availableNDCs)
                  /\ r.selectedPackages[i].package.status = "active"
            /\ \A pkg \in elements(r.availableNDCs) :
                  /\ pkg.status = "active"
                  /\ pkg \in elements(ndcsResult.data)

\* a success on a catalog answer that also holds an inactive package
C29_Witness ==
    /\ outcome.kind = "success"
    /\ \E i \in DOMAIN ndcsResult.data : ndcsResult.data[i].status # "active"
    /\ Len(outcome.data.selectedPackages) >= 1
    /\ Len(outcome.data.availableNDCs) < Len(ndcsResult.data)

TransientFetchAnswer(answer) ==
    \/ answer.kind = "rejection"
        /\ \/ answer.error.code \in {"ECONNRESET", "ETIMEDOUT", "ENOTFOUND"}
           \/ answer.error.name \in {"AbortError", "FetchError"}
    \/ answer.kind = "response" /\ answer.status \in {429, 503, 504}

RetryDiscipline ==
    rcall.fn = "fetchWithRetry" =>
        /\ Len(rlog) <= rcall.maxRetries
        /\ \A i \in DOMAIN rlog :
            /\ i < Len(rlog) => TransientFetchAnswer(rlog[i])
            /\ (/\ rlog[i].kind = "response"
                /\ rlog[i].status >= 400 /\ rlog[i].status < 500
                /\ rlog[i].status # 429)
                    => /\ i = Len(rlog)
                       /\ rpc = "done"
                       /\ rres = [kind |-> "throw", error |-> ExternalAPIError]
        /\ rpc = "done" =>
            \/ /\ rres.kind = "return"
               /\ rres.response.status >= 200 /\ rres.response.status < 300
            \/ rres = [kind |-> "throw", error |-> ExternalAPIError]

C22_ThreeRetriesWithBackoff ==
    (/\ rpc = "done" /\ rcall.fn = "fetchWithRetry"
     /\ rcall.maxRetries = DEFAULT_MAX_RETRIES
     /\ rres.kind = "throw"
     /\ \A i \in DOMAIN rlog :
            rlog[i].kind = "rejection" /\ rlog[i].error.code = "ECONNRESET")
        => /\ Len(rlog) = 1 + 3
           /\ rsleeps = <<1000, 2000, 4000>>

usedRank(key) == CHOOSE i \in DOMAIN usedOrder : usedOrder[i] = key

\* a step that is an operation of the given kinds on the instance
Operated(ops) == lastOp'.op \in ops

SetStep ==
    (enabled /\ Operated({"set"})) =>
        /\ IF lastOp'.key \in DOMAIN cache
           THEN DOMAIN cache' = DOMAIN cache
           ELSE IF Cardinality(DOMAIN cache) >= maxSize
           THEN \E victim \in DOMAIN cache :
                    /\ DOMAIN cache' = (DOMAIN cache \ {victim}) \cup {lastOp'.key}
                    /\ \A other \in DOMAIN cache : usedRank(victim) <= usedRank(other)
           ELSE DOMAIN cache' = DOMAIN cache \cup {lastOp'.key}
        /\ \A other \in DOMAIN cache' \ {lastOp'.key} : cache'[other] = cache[other]
        /\ cache'[lastOp'.key] =
            [value |-> lastSet'[lastOp'.key], expiresAt |-> now + lastOp'.returned]

ClearStep == Operated({"clear"}) => cache' = NoEntries /\ accessOrder' = <<>>

\* C25: the entries never exceed maxSize; with caching enabled a set of a
\* new key on a full cache removes exactly one entry, the one whose last
\* write by set or return by get is the oldest, a set of an existing key
\* removes none, every other entry that stays is untouched and the key's
\* entry holds the value set and expires ttl after now; and clear leaves
\* the map and the recency list empty
C25_BoundedLRU ==
    /\ [](Cardinality(DOMAIN cache) <= maxSize)
    /\ [][SetStep /\ ClearStep]_vars

C25_Witness ==
    /\ enabled /\ lastOp.op = "set" /\ lastOp.full
    /\ maxSize = MaxCacheSize
    /\ Cardinality(DOMAIN cache) = maxSize
    /\ Len(usedOrder) > Len(accessOrder)
    /\ usedOrder[1] \notin DOMAIN cache

GetStep ==
    Operated({"get", "has"}) =>
        IF ~enabled THEN ~lastOp'.found
        ELSE /\ lastOp'.found =>
                /\ lastOp'.key \in DOMAIN cache
                /\ now <= cache[lastOp'.key].expiresAt
                /\ lastOp'.op = "get" => lastOp'.returned = lastSet[lastOp'.key]
             /\ lastOp'.key \in DOMAIN cache =>
                IF now > cache[lastOp'.key].expiresAt
                THEN /\ ~lastOp'.found
                     /\ lastOp'.key \notin DOMAIN cache'
                     /\ \A i \in DOMAIN accessOrder' : accessOrder'[i] # lastOp'.key
                ELSE lastOp'.found

\* C26: a get (or has) finds a value only in an entry not past its expiry,
\* and get then returns the value most recently set for the key; on
\* an entry past its expiry it finds nothing and removes the entry from the
\* map and from the recency list; on an entry not past its expiry it finds
\* the value; with caching disabled nothing is ever found or stored
C26_NoExpiredValue ==
    /\ [](~enabled => (cache = NoEntries /\ accessOrder = <<>>))
    /\ [][GetStep]_vars

C26_Witness ==
    /\ enabled /\ lastOp.op = "get" /\ lastOp.expired
    /\ ~lastOp.found
    /\ lastOp.key \notin DOMAIN cache
    /\ cache # NoEntries

(***************************************************************************)
(* Claims about adapter calls that share a Cache (checked under SpecShared)*)
(***************************************************************************)
\* C27: however the calls interleave at their awaits, the recency list
\* holds exactly the keys of the map, each once, the map holds at most
\* maxSize entries, and every value in the map or returned from it to a
\* call was stored by some call under that same key
C27_CacheConsistent ==
    /\ Len(accessOrder) = Cardinality(DOMAIN cache)
    /\ {accessOrder[i] : i \in DOMAIN accessOrder} = DOMAIN cache
    /\ Cardinality(DOMAIN cache) <= maxSize
    /\ \A k \in DOMAIN cache : <<k, cache[k].value>> \in stored
    /\ \A i \in DOMAIN runs :
        (runs[i].pc = "done" /\ runs[i].hit) =>
            <<cacheKey(cacheName, runs[i].drugName), runs[i].result.data>> \in stored

C27_Witness ==
    /\ Cardinality(DOMAIN cache) = maxSize
    /\ \E i, j, k \in DOMAIN runs :
        /\ runs[i].pc = "done" /\ runs[i].hit
        /\ runs[j].pc = "await"
        /\ runs[k].pc = "done" /\ ~runs[k].hit /\ runs[k].result.success
        /\ runs[k].drugName # runs[i].drugName

\* C28: two calls with the same name that the external service answers the
\* same return the same result, whatever other calls left in the cache
C28_Idempotent ==
    \A i, j \in DOMAIN runs :
        (/\ runs[i].pc = "done" /\ runs[j].pc = "done"
         /\ runs[i].drugName = runs[j].drugName
         /\ runs[i].answer = runs[j].answer)
            => runs[i].result = runs[j].result


==========================================================================
